---- MODULE Spec2Model ----
(***************************************************************************)
(* SmartBatcher (src/src/index.ts): a request-coalescing cache.            *)
(*                                                                         *)
(* The model follows the JavaScript execution model the class runs on:     *)
(*   - a call runs synchronously up to its first `await`;                  *)
(*   - the code after an `await` of an already settled promise is a        *)
(*     microtask; microtasks run in FIFO order (variable micro);           *)
(*   - timer and immediate callbacks (executeBatch, the expiration         *)
(*     callback) run only when the microtask queue is empty;               *)
(*   - the promise of batchFunction is settled by the collaborator at any  *)
(*     time, with any outcome.                                             *)
(*                                                                         *)
(* Abstractions:                                                           *)
(*   - the .then/.catch callbacks chained on setValue (executeBatch,       *)
(*     loadMany) run in the same step as the setValue continuation they    *)
(*     follow; nothing else can run between them that touches the same     *)
(*     waiter or slot;                                                     *)
(*   - the listeners of a subscriber throw only in SpecThrow and in        *)
(*     SpecAgree (variable faults: how often they still will); get()       *)
(*     fails only that way;                                                *)
(*   - SpecFair is Spec with the event loop's progress: a queued microtask *)
(*     and a pending callback of executeBatch are eventually run;          *)
(*   - Spec, SpecMany and SpecHeard leave the clock out: expirationTime is *)
(*     positive and a timer may fire at any later macrotask. SpecCache is  *)
(*     the cache alone with the clock: a timer fires no earlier than       *)
(*     expirationTime after it was armed, and as late as the runtime gets  *)
(*     to it. SpecDelay is load with the clock and the delay option: the   *)
(*     callback of executeBatch runs no earlier than delay after it was    *)
(*     armed.                                                              *)
(***************************************************************************)
EXTENDS Integers, Sequences, FiniteSets, TLC

\* ---------------------------------------------------------------- bounds
MaxLoads == 2          \* load() and loadMany() calls in one behaviour
MaxUserOps == 1        \* direct setValue/deleteValue/clearCache calls
MemoryLimit == 4       \* memoryLimitMB, in units of the size estimator
MaxSurplus == 1        \* outcomes batchFunction may return beyond the queries
MaxManyLen == 2        \* queries in one loadMany() call
MaxCacheOps == 3       \* direct cache calls in a behaviour of the cache alone
MaxTime == 4           \* the clock stops here
ExpirationT == 2       \* option expirationTime of the timed cache
DelayD == 2            \* option delay of the timed batch window
MaxFaults == 1         \* exceptions a subscriber throws in one behaviour

\* ------------------------------------------------------------ value space
\* Normalized queries, and the cache keys they hash to.
Queries == {"qa", "qb"}
Keys == {"a", "b"}
\* The property name JavaScript uses for the key `undefined`.
UndefinedKey == "undefined"
StoreKeys == Keys \cup {UndefinedKey}
Values == {"v1", "v2"}
Undefined == "undefined"     \* the JavaScript value undefined
Null == "null"               \* the JavaScript value null
ErrorValue == "Error"        \* an Error instance returned inside the array
Thrown == "thrown"           \* the reason batchFunction rejects with
None == "none"               \* no value (history fields only)

\* What batchFunction may put at one position of its result array.
Outcomes == Values \cup {Undefined, Null, ErrorValue}

\* What it may put at a position beyond the queries it was given: one
\* outcome that is a value and one that is not.
SurplusOutcomes == {"v1", ErrorValue}

\* hashFn(extractCacheKey(query)): the cache key of a normalized query.
hashFn(query) == IF query = "qa" THEN "a" ELSE "b"

\* The size estimator (object-sizeof): a key costs 1, a value its size.
sizeofValue(v) == IF v = "v1" THEN 1 ELSE IF v = "v2" THEN 2 ELSE 0

RECURSIVE SumOver(_, _)
SumOver(S, store) ==
    IF S = {} THEN 0
    ELSE LET k == CHOOSE x \in S : TRUE
         IN 1 + sizeofValue(store[k]) + SumOver(S \ {k}, store)

Min(a, b) == IF a <= b THEN a ELSE b

\* sizeof(memoryStore) / sizeof({[key]: value})
sizeofStore(store) == SumOver(DOMAIN store, store)
sizeofEntry(key, value) == 1 + sizeofValue(value)

\* ------------------------------------------------------------------ state
VARIABLES
    memoryStore,        \* Record<string, T>: function from the present keys
    expirationTimers,   \* keys holding a handle in this.expirationTimers
    timeouts,           \* per key, the live expiration timeouts of the runtime
    armedAt,            \* per key, the time its live timeout was armed at
    expirationTime,     \* option expirationTime (0 = never expire)
    delay,              \* option delay (0 = setImmediate)
    now,                \* the clock of the runtime
    listening,          \* a subscriber is attached to the notifications
    heard,              \* the notifications that subscriber received, in order
    faults,             \* how many more times a subscriber will throw from its
                        \* listener
    setOutcome,         \* how the last settled setValue call of the application
                        \* settled
    queue,              \* this.queue: sequence of load ids (the QueueItems)
    scheduled,          \* this.scheduled
    batchTimers,        \* live setTimeout/setImmediate callbacks of executeBatch
    batchArmedAt,       \* the time the live callback of executeBatch was armed at
    micro,              \* the runtime's microtask queue
    loads,              \* every load() call made so far, by id
    batches,            \* every executeBatch run so far: its waiters, the
                        \* queries given to batchFunction, and how the
                        \* promise settled (result: the outcomes at the
                        \* positions that have a waiter, len: the length of
                        \* the array)
    served,             \* history: per key, the value a load resolved with and
                        \* that was not deleted, cleared or expired since
    written,            \* history: as served, and not overwritten either
    userOps,            \* direct cache calls the application may still make
    many                \* the loadMany() call: its locals and its progress

vars == <<memoryStore, expirationTimers, timeouts, armedAt, expirationTime,
          delay, now, listening, heard, faults, setOutcome, queue, scheduled,
          batchTimers, batchArmedAt, micro, loads, batches, served, written,
          userOps, many>>

cacheVars == <<memoryStore, expirationTimers, timeouts, armedAt>>
\* What no operation of the batcher changes: its options, the clock, and
\* whether a subscriber is attached.
envVars == <<expirationTime, delay, listening, now>>
schedVars == <<queue, scheduled, batchTimers, batchArmedAt>>

\* --------------------------------------------------------- error taxonomy
\* new <cls>(message, query, cause). `msg` is the fixed part of the message,
\* `key` the key the message names, `queries` is set when the query handed
\* to the constructor is the whole array of queries of a batch.
BatcherError(cls, msg, key, query, queries, cause) ==
    [cls |-> cls, msg |-> msg, key |-> key, query |-> query,
     queries |-> queries, cause |-> cause]

NoError == BatcherError(None, None, None, None, <<>>, None)

\* An Error instance the collaborator returned inside its array.
RawError == BatcherError(ErrorValue, None, None, None, <<>>, None)

\* ------------------------------------------------------------ cache store
\* Mutant of get: the lookup uses a key no entry is stored under.
getUnderOtherKey(store, key) == Undefined

\* get(key): this.memoryStore[key]; undefined for a key that is not present.
get(store, key) == IF key \in DOMAIN store THEN store[key] ELSE Undefined

\* has(key): key in this.memoryStore
has(store, key) == key \in DOMAIN store

\* Mutant of checkMemoryAvailability: every write is admitted.
checkMemoryAvailabilityAlways(store, key, value) == TRUE

\* checkMemoryAvailability({[key]: value})
checkMemoryAvailability(store, key, value) ==
    sizeofStore(store) + sizeofEntry(key, value) <= MemoryLimit

\* Mutant of storeWrite: the other entries are dropped to make room.
storeWriteEvicting(store, key, value) == [k \in {key} |-> value]

\* this.memoryStore[key] = value
storeWrite(store, key, value) ==
    [k \in (DOMAIN store) \cup {key} |-> IF k = key THEN value ELSE store[k]]

\* delete this.memoryStore[key]
storeDelete(store, key) == [k \in (DOMAIN store) \ {key} |-> store[k]]

\* clearTimeout(this.expirationTimers[key]): the handle kept for the key is
\* cancelled (a no-op when that timeout has fired already).
clearTimeoutOf(tmo, key) == [tmo EXCEPT ![key] = IF @ > 0 THEN @ - 1 ELSE 0]

\* Mutant of setExpirationTimeouts: the earlier timeout is not cancelled.
setExpirationTimeoutsKeep(tmo, timers, key, expTime) ==
    IF expTime > 0 THEN [tmo EXCEPT ![key] = @ + 1] ELSE tmo

\* setExpiration(key): the timeouts after arming
setExpirationTimeouts(tmo, timers, key, expTime) ==
    IF expTime > 0
    THEN LET cleared == IF key \in timers THEN clearTimeoutOf(tmo, key) ELSE tmo
         IN [cleared EXCEPT ![key] = @ + 1]
    ELSE tmo

\* setExpiration(key): the handles after arming
setExpirationTimers(timers, key, expTime) ==
    IF expTime > 0 THEN timers \cup {key} ELSE timers

\* setExpiration(key): the time the live timeout of each key was armed at
setExpirationArmedAt(armed, key, expTime, t) ==
    IF expTime > 0 THEN [armed EXCEPT ![key] = t] ELSE armed

\* Mutant of deleteValueTimeouts: the timeout of the key is left running.
deleteValueTimeoutsKeep(tmo, timers, key) == tmo

\* deleteValue(key): the timeouts and handles afterwards
deleteValueTimeouts(tmo, timers, key) ==
    IF key \in timers THEN clearTimeoutOf(tmo, key) ELSE tmo

\* Mutant of deleteValueTimers: the handle of the key is kept.
deleteValueTimersKeep(timers, key) == timers

\* deleteValue(key): delete this.expirationTimers[key]
deleteValueTimers(timers, key) == timers \ {key}

\* ---------------------------------------------------------- notifications
\* The payload of a notification: the event, and the key and the value (or
\* the flag) it carries.
Notification(ev, key, value) == [ev |-> ev, key |-> key, value |-> value]

\* this.emit(event, payload): an attached subscriber receives the
\* notification; without one the call has no effect.
emit(log, on, n) == IF on THEN Append(log, n) ELSE log

\* What a listener throws. EventEmitter.emit calls the listeners in the
\* caller's stack: the exception leaves emit into the code that emitted.
SubscriberError == "SubscriberError"

\* Whether the listener called by an emit throws: a choice of the
\* subscriber.
Throws == IF faults > 0 THEN BOOLEAN ELSE {FALSE}

\* The promise of get(key): the value read, or the rejection that a
\* throwing listener of getValue causes.
getResult(store, key, t) == IF t THEN SubscriberError ELSE get(store, key)

\* ------------------------------------------------------------- microtasks
\* The code that follows `await this.get(key)` in load.
LoadCont(id) ==
    [type |-> "load", id |-> id, key |-> None, value |-> None, ok |-> TRUE]

\* The code that follows `await this.checkMemoryAvailability(...)` in
\* setValue; id > 0 is the waiter executeBatch settles afterwards, id < 0
\* the result slot (-id) loadMany marks when the write fails, id = 0 a call
\* with neither; ok is the result the check computed when setValue was
\* called.
SetCont(id, key, value, ok) ==
    [type |-> "set", id |-> id, key |-> key, value |-> value, ok |-> ok]

\* The code that follows `await this.get(key)` in the loop of loadMany.
ManyCont ==
    [type |-> "many", id |-> 0, key |-> None, value |-> None, ok |-> TRUE]

\* ---------------------------------------------------------------- waiters
\* item.resolve(value) / item.reject(err) on the waiter of a load record.
resolveItem(l, value) ==
    [l EXCEPT !.kind = IF @ = "pending" THEN "resolved" ELSE @,
              !.value = IF l.kind = "pending" THEN value ELSE @,
              !.settledAt = IF l.kind = "pending" THEN now ELSE @,
              !.settles = @ + 1]

rejectItem(l, err) ==
    [l EXCEPT !.kind = IF @ = "pending" THEN "rejected" ELSE @,
              !.err = IF l.kind = "pending" THEN err ELSE @,
              !.settledAt = IF l.kind = "pending" THEN now ELSE @,
              !.settles = @ + 1]

\* Mutant of queuePush: the waiter is put at the front (unshift).
queueUnshift(q, id) == <<id>> \o q

\* this.queue.push(item)
queuePush(q, id) == Append(q, id)

\* Mutant of scheduleBatchArms: no call arms a timer.
scheduleBatchArmsNever(sch) == FALSE

\* Mutant of scheduleBatchArms: every call arms a timer.
scheduleBatchArmsAlways(sch) == TRUE

\* scheduleBatch(): whether a timer is armed by this call
scheduleBatchArms(sch) == ~sch

\* A result slot of loadMany: a value, or an error.
Slot(value, err) == [value |-> value, err |-> err]

\* The locals of loadMany: queries (normalized), idx (the loop index), read
\* (the value the pending get read), results, toFetch (queryIndexMap: the
\* indices of the queries in queriesToFetch). History: what each lookup
\* read (reads), how often batchFunction was invoked (calls), how its
\* promise settled (kind, len, and result: the outcomes at the positions of
\* the queries it was given), per index what served and written held for
\* its key when the cache was read, and the indices whose lookup ended in
\* the catch block (caught).
NoMany ==
    [st |-> "idle", queries |-> <<>>, idx |-> 0, read |-> None,
     results |-> <<>>, toFetch |-> <<>>, reads |-> <<>>, calls |-> 0,
     kind |-> None, len |-> 0, result |-> <<>>,
     servedAt |-> <<>>, writtenAt |-> <<>>, caught |-> {}]

\* ------------------------------------------------------------------- Init
Init ==
    /\ memoryStore = <<>>
    /\ expirationTimers = {}
    /\ timeouts = [k \in StoreKeys |-> 0]
    /\ armedAt = [k \in StoreKeys |-> 0]
    /\ expirationTime = 1
    /\ delay = 0
    /\ now = 0
    /\ listening = FALSE
    /\ heard = <<>>
    /\ faults = 0
    /\ setOutcome = None
    /\ queue = <<>>
    /\ scheduled = FALSE
    /\ batchTimers = 0
    /\ batchArmedAt = 0
    /\ micro = <<>>
    /\ loads = <<>>
    /\ batches = <<>>
    /\ served = [k \in StoreKeys |-> None]
    /\ written = [k \in StoreKeys |-> None]
    /\ userOps = MaxUserOps
    /\ many = NoMany

\* ------------------------------------------------------------------- load
\* load(query) up to `await this.get(key)`: the key is derived and the store
\* is read (cached: what the promise of get settles with); the rest of load
\* runs as a microtask.
LoadCall(query) ==
    /\ Len(loads) + (IF many.st = "idle" THEN 0 ELSE 1) < MaxLoads
    /\ \E t \in Throws :
       LET key == hashFn(query)
           id == Len(loads) + 1
       IN /\ faults' = IF t THEN faults - 1 ELSE faults
          /\ loads' = Append(loads,
                 [query |-> query, key |-> key,
                  cached |-> getResult(memoryStore, key, t),
                  st |-> "get", kind |-> "pending", value |-> None,
                  err |-> NoError, settles |-> 0,
                  queuedAt |-> 0, settledAt |-> 0,
                  epoch |-> Len(batches),
                  servedAt |-> served[key], writtenAt |-> written[key]])
          /\ micro' = Append(micro, LoadCont(id))
          /\ heard' = emit(heard, listening,
                           Notification("getValue", key,
                                        get(memoryStore, key)))
    /\ UNCHANGED <<cacheVars, envVars, setOutcome, many, schedVars, batches,
                   served, written, userOps>>

\* Mutant of getErrorOutcome: the failure of the cache read is thrown on
\* as it is.
getErrorOutcomeRaw(key, query, cause) ==
    BatcherError(cause, None, None, None, <<>>, None)

\* new CacheError(`Error getting value from cache for key '${key}'`, query,
\* error)
getErrorOutcome(key, query, cause) ==
    BatcherError("CacheError", "Error getting value from cache", key, query,
                 <<>>, cause)

\* What the promise of load rejects with when the listener of cacheMiss
\* throws: the exception itself.
SubscriberFailure == BatcherError(SubscriberError, None, None, None, <<>>, None)

\* The promise of load rejects without a waiter having been made.
loadFails(l, err) ==
    [l EXCEPT !.st = "failed", !.kind = "rejected", !.err = err,
              !.settledAt = now]

\* Mutant of LoadResume: the cached value is not returned; the load goes on
\* to the queue whatever the lookup read.
LoadResumeNoReturn(id) ==
    /\ loads' = [loads EXCEPT ![id].st = "queued",
                                   ![id].queuedAt = now]
    /\ heard' = emit(heard, listening,
                     Notification("cacheMiss", loads[id].key, None))
    /\ faults' = faults
    /\ queue' = queuePush(queue, id)
    /\ scheduled' = TRUE
    /\ batchTimers' = IF scheduleBatchArms(scheduled)
                      THEN batchTimers + 1 ELSE batchTimers
    /\ batchArmedAt' = IF scheduleBatchArms(scheduled)
                       THEN now ELSE batchArmedAt

\* load(query) after the await: a cache hit returns the value, a miss
\* pushes a waiter and calls scheduleBatch(). The catch block turns a
\* rejection of get, and an exception of the listener of cacheHit, into a
\* CacheError; an exception of the listener of cacheMiss leaves load as it
\* is, before the waiter is made.
LoadResume(id) ==
    LET l == loads[id]
    IN IF l.cached = SubscriberError
       THEN /\ loads' = [loads EXCEPT ![id] =
                           loadFails(l, getErrorOutcome(l.key, l.query,
                                                        SubscriberError))]
            /\ UNCHANGED <<heard, faults, schedVars>>
       ELSE \E t \in Throws :
            /\ faults' = IF t THEN faults - 1 ELSE faults
            /\ IF l.cached # Undefined
               THEN /\ heard' = emit(heard, listening,
                                     Notification("cacheHit", l.key,
                                                  l.cached))
                    /\ loads' = [loads EXCEPT ![id] =
                          IF t
                          THEN loadFails(l, getErrorOutcome(l.key, l.query,
                                                SubscriberError))
                          ELSE [l EXCEPT !.st = "hit", !.kind = "resolved",
                                         !.value = l.cached]]
                    /\ UNCHANGED schedVars
               ELSE /\ heard' = emit(heard, listening,
                                     Notification("cacheMiss", l.key, None))
                    /\ IF t
                       THEN /\ loads' = [loads EXCEPT ![id] =
                                           loadFails(l, SubscriberFailure)]
                            /\ UNCHANGED schedVars
                       ELSE /\ loads' = [loads EXCEPT
                                           ![id].st = "queued",
                                           ![id].queuedAt = now]
                            /\ queue' = queuePush(queue, id)
                            /\ scheduled' = TRUE
                            /\ batchTimers' =
                                  IF scheduleBatchArms(scheduled)
                                  THEN batchTimers + 1 ELSE batchTimers
                            /\ batchArmedAt' =
                                  IF scheduleBatchArms(scheduled)
                                  THEN now ELSE batchArmedAt

\* --------------------------------------------------------------- setValue
\* What setValue throws when the memory check refuses the write.
MemoryLimitError == "MemoryLimitError"

\* Mutant of cacheErrorOutcome: the failure of setValue is passed on as it
\* is (item.reject(error)).
cacheErrorOutcomeRaw(l, cause) ==
    BatcherError(cause, None, None, None, <<>>, None)

\* new CacheError(`Error setting value in cache during batch for key
\* '${item.key}'`, item.originalQuery, error)
cacheErrorOutcome(l, cause) ==
    BatcherError("CacheError", "Error setting value in cache during batch",
                 l.key, l.query, <<>>, cause)

\* Mutant of manySetFailed: the failure of one write marks every slot.
manySetFailedAll(m, i, key, cause) ==
    [m EXCEPT !.results =
        [j \in 1..Len(m.results) |->
            Slot(None, BatcherError("CacheError",
                           "Error setting value in cache", key,
                           m.queries[i], <<>>, cause))]]

\* The .catch loadMany chains on setValue: results[originalIndex] = new
\* CacheError(`Error setting value in cache for key '${key}'`,
\* queriesToFetch[index], setError)
manySetFailed(m, i, key, cause) ==
    [m EXCEPT !.results[i] =
        Slot(None, BatcherError("CacheError", "Error setting value in cache",
                       key, m.queries[i], <<>>, cause))]

\* setValue(key, value) after `await this.checkMemoryAvailability(...)`.
\* A refused write throws MemoryLimitError; an admitted one writes the
\* store and re-arms the key's expiration, and then emits setValue: when
\* the listener throws, setValue rejects after the write. For a write made
\* by executeBatch the waiter is then resolved, or rejected with a
\* CacheError; for a write made by loadMany a failure replaces the slot.
SetResume(m) ==
    IF m.ok
    THEN \E t \in Throws :
         /\ faults' = IF t THEN faults - 1 ELSE faults
         /\ memoryStore' = storeWrite(memoryStore, m.key, m.value)
         /\ timeouts' = setExpirationTimeouts(timeouts, expirationTimers,
                                              m.key, expirationTime)
         /\ expirationTimers' = setExpirationTimers(expirationTimers, m.key,
                                                    expirationTime)
         /\ armedAt' = setExpirationArmedAt(armedAt, m.key, expirationTime,
                                            now)
         /\ heard' = emit(heard, listening,
                          Notification("setValue", m.key, m.value))
         /\ setOutcome' = IF m.id = 0
                          THEN (IF t THEN SubscriberError ELSE "resolved")
                          ELSE setOutcome
         /\ loads' = IF m.id > 0
                     THEN [loads EXCEPT ![m.id] =
                             IF t
                             THEN rejectItem(@, cacheErrorOutcome(
                                                  loads[m.id],
                                                  SubscriberError))
                             ELSE resolveItem(@, m.value)]
                     ELSE loads
         /\ served' = IF m.id > 0 /\ m.value \in Values /\ ~t
                      THEN [served EXCEPT ![m.key] = m.value] ELSE served
         /\ written' = [written EXCEPT ![m.key] =
                           IF m.id > 0 /\ ~t
                           THEN (IF m.value \in Values THEN m.value ELSE None)
                           ELSE (IF m.value = @ THEN @ ELSE None)]
         /\ many' = IF m.id < 0 /\ t
                    THEN manySetFailed(many, -m.id, m.key, SubscriberError)
                    ELSE many
    ELSE /\ loads' = IF m.id > 0
                     THEN [loads EXCEPT ![m.id] = rejectItem(@,
                              cacheErrorOutcome(loads[m.id],
                                                MemoryLimitError))]
                     ELSE loads
         /\ many' = IF m.id < 0
                    THEN manySetFailed(many, -m.id, m.key, MemoryLimitError)
                    ELSE many
         /\ setOutcome' = IF m.id = 0 THEN MemoryLimitError ELSE setOutcome
         /\ UNCHANGED <<cacheVars, served, written, heard, faults>>

\* --------------------------------------------------------------- loadMany
\* The next index of the loop of loadMany: the key is derived and the store
\* is read, up to `await this.get(key)`; t: the listener of getValue throws.
manyRead(m, i, t) ==
    LET key == hashFn(m.queries[i])
    IN [m EXCEPT !.st = "get", !.idx = i,
                 !.read = getResult(memoryStore, key, t),
                 !.servedAt = Append(@, served[key]),
                 !.writtenAt = Append(@, written[key])]

\* What the subscriber has heard after the get() call of index i.
manyReadHeard(log, queries, i) ==
    emit(log, listening,
         Notification("getValue", hashFn(queries[i]),
                      get(memoryStore, hashFn(queries[i]))))

\* Mutant of manyReturnsEarly: loadMany goes on to batchFunction whatever
\* the list of queries to fetch holds.
manyReturnsEarlyNever(toFetch) == FALSE

\* loadMany(): "if (queriesToFetch.length === 0) return results"
manyReturnsEarly(toFetch) == toFetch = <<>>

\* loadMany(queries) up to its first await.
ManyCall(queries) ==
    /\ many.st = "idle"
    /\ Len(loads) < MaxLoads
    /\ IF queries = <<>>
       THEN /\ many' = [many EXCEPT
                              !.st = IF manyReturnsEarly(many.toFetch)
                                     THEN "returned" ELSE "flight",
                              !.calls = IF manyReturnsEarly(many.toFetch)
                                        THEN @ ELSE @ + 1]
            /\ micro' = micro
            /\ heard' = heard
            /\ faults' = faults
       ELSE \E t \in Throws :
            /\ many' = manyRead([many EXCEPT !.queries = queries], 1, t)
            /\ micro' = Append(micro, ManyCont)
            /\ heard' = manyReadHeard(heard, queries, 1)
            /\ faults' = IF t THEN faults - 1 ELSE faults
    /\ UNCHANGED <<cacheVars, envVars, setOutcome, schedVars, loads, batches,
                   served, written, userOps>>

\* Mutant of manyToFetch: every query is forwarded, cached or not.
manyToFetchAll(toFetch, hit, i) == Append(toFetch, i)

\* queriesToFetch.push(query); queryIndexMap.set(..., i): the indices of the
\* queries to fetch after the lookup of index i.
manyToFetch(toFetch, hit, i) == IF hit THEN toFetch ELSE Append(toFetch, i)

\* The placeholder loadMany puts in the slot of a query that missed.
missPlaceholder(query) ==
    BatcherError("NotFoundError", "Key not found in cache", hashFn(query),
                 query, <<>>, None)

\* The loop of loadMany after `await this.get(key)`: the slot is filled, and
\* either the next index is read, or loadMany returns (no miss), or
\* batchFunction is invoked with the queries that missed. The catch block
\* of the loop takes a rejection of get and an exception of the listener of
\* cacheHit or cacheMiss alike: the query is fetched and its slot holds a
\* CacheError meanwhile.
ManyResume ==
    \E t \in (IF many.read = SubscriberError THEN {FALSE} ELSE Throws) :
    \E u \in (IF many.idx < Len(many.queries) /\ faults > (IF t THEN 1 ELSE 0)
              THEN BOOLEAN ELSE {FALSE}) :
    LET i == many.idx
        failed == many.read = SubscriberError \/ t
        hit == ~failed /\ many.read # Undefined
        filled == [many EXCEPT
                     !.results = Append(@,
                         IF failed
                         THEN Slot(None,
                                  getErrorOutcome(hashFn(many.queries[i]),
                                      many.queries[i], SubscriberError))
                         ELSE IF hit THEN Slot(many.read, NoError)
                         ELSE Slot(None, missPlaceholder(many.queries[i]))),
                     !.toFetch = manyToFetch(@, hit, i),
                     !.reads = Append(@, many.read),
                     !.caught = IF failed THEN @ \cup {i} ELSE @]
        told == IF many.read = SubscriberError THEN heard
                ELSE emit(heard, listening,
                          IF many.read # Undefined
                          THEN Notification("cacheHit",
                                   hashFn(many.queries[i]), many.read)
                          ELSE Notification("cacheMiss",
                                   hashFn(many.queries[i]), None))
    IN /\ faults' = faults - (IF t THEN 1 ELSE 0) - (IF u THEN 1 ELSE 0)
       /\ IF i < Len(many.queries)
          THEN /\ many' = manyRead(filled, i + 1, u)
               /\ micro' = Append(Tail(micro), ManyCont)
               /\ heard' = manyReadHeard(told, many.queries, i + 1)
          ELSE /\ many' = [filled EXCEPT
                              !.st = IF manyReturnsEarly(filled.toFetch)
                                     THEN "returned" ELSE "flight",
                              !.calls = IF manyReturnsEarly(filled.toFetch)
                                        THEN @ ELSE @ + 1]
               /\ micro' = Tail(micro)
               /\ heard' = told

\* The runtime runs the oldest microtask.
RunMicrotask ==
    /\ micro # <<>>
    /\ LET m == Head(micro)
       IN CASE m.type = "load" ->
                 /\ LoadResume(m.id)
                 /\ micro' = Tail(micro)
                 /\ UNCHANGED <<cacheVars, served, written, many, setOutcome>>
            [] m.type = "set" ->
                 /\ SetResume(m)
                 /\ micro' = Tail(micro)
                 /\ UNCHANGED schedVars
            [] m.type = "many" ->
                 /\ ManyResume
                 /\ UNCHANGED <<cacheVars, schedVars, loads, served, written,
                                setOutcome>>
    /\ UNCHANGED <<envVars, batches, userOps>>

\* ----------------------------------------------------------- executeBatch
\* currentQueue.map(item => item.originalQuery)
RECURSIVE queriesOf(_, _)
queriesOf(items, ls) ==
    IF items = <<>> THEN <<>>
    ELSE <<ls[Head(items)].query>> \o queriesOf(Tail(items), ls)

\* Mutant of ExecuteBatch: the queue is handed over and not replaced.
ExecuteBatchNoSwap ==
    /\ batchTimers > 0
    /\ micro = <<>>
    /\ batchTimers' = batchTimers - 1
    /\ batchArmedAt' = 0
    /\ scheduled' = FALSE
    /\ queue' = queue
    /\ batches' = Append(batches,
           [items |-> queue, queries |-> queriesOf(queue, loads),
            st |-> "flight", kind |-> None, result |-> <<>>, len |-> 0,
            at |-> now])
    /\ loads' = [i \in 1..Len(loads) |->
                   IF loads[i].st = "queued"
                   THEN [loads[i] EXCEPT !.st = "batched"] ELSE loads[i]]
    /\ UNCHANGED <<cacheVars, envVars, setOutcome, heard, faults, many, micro,
                   served, written, userOps>>

\* The timer (or immediate) callback: executeBatch() up to
\* `await this.batchFunction(queries)`. The queue is captured and replaced,
\* and batchFunction is invoked with the captured waiters' queries.
ExecuteBatch ==
    /\ batchTimers > 0
    /\ micro = <<>>
    /\ batchTimers' = batchTimers - 1
    /\ batchArmedAt' = 0
    /\ scheduled' = FALSE
    /\ queue' = <<>>
    /\ batches' = Append(batches,
           [items |-> queue, queries |-> queriesOf(queue, loads),
            st |-> "flight", kind |-> None, result |-> <<>>, len |-> 0,
            at |-> now])
    /\ loads' = [i \in 1..Len(loads) |->
                   IF loads[i].st = "queued"
                   THEN [loads[i] EXCEPT !.st = "batched"] ELSE loads[i]]
    /\ UNCHANGED <<cacheVars, envVars, setOutcome, heard, faults, many, micro,
                   served, written, userOps>>

\* Mutant of demux: only an Error is told apart, null is taken for a value.
demuxNullIsValue(result) ==
    IF result = ErrorValue THEN "reject" ELSE "set"

\* How executeBatch treats the outcome at one position of the array:
\*   result instanceof Error -> "reject"; result !== null -> "set";
\*   otherwise -> "notfound".
demux(result) ==
    IF result = ErrorValue THEN "reject"
    ELSE IF result # Null THEN "set"
    ELSE "notfound"

\* Mutant of errorOutcome: the Error is wrapped in a BatchFunctionError.
errorOutcomeWrapped(result, l) ==
    BatcherError("BatchFunctionError", "Error executing batchFunction", None,
                 l.query, <<>>, result)

\* The reason the waiter is rejected with for an Error outcome:
\* item.reject(result).
errorOutcome(result, l) == RawError

\* new NotFoundError(`Not found: ${item.key}`, item.originalQuery)
notFoundOutcome(l) ==
    BatcherError("NotFoundError", "Not found", l.key, l.query, <<>>, None)

\* The positions results.forEach visits and finds a waiter at.
visited(items, results) ==
    {p \in 1..Len(results) : p <= Len(items)}

\* The outcomes at the visited positions (kept as the batch's history; the
\* outcomes beyond the last waiter are visited by nobody).
visitedPrefix(items, results) ==
    [p \in visited(items, results) |-> results[p]]

\* The setValue calls results.forEach makes, in index order; each computes
\* its memory check against the store as it is during the forEach.
RECURSIVE setCalls(_, _, _, _, _)
setCalls(items, results, ls, store, p) ==
    IF p > Len(results) THEN <<>>
    ELSE (IF p \in visited(items, results) /\ demux(results[p]) = "set"
          THEN <<SetCont(items[p], ls[items[p]].key, results[p],
                     checkMemoryAvailability(store, ls[items[p]].key,
                                             results[p]))>>
          ELSE <<>>)
         \o setCalls(items, results, ls, store, p + 1)

\* Mutant of settleArray: the first Error outcome aborts the whole batch,
\* every waiter that has an outcome is rejected with it.
settleArrayAbort(items, results, ls) ==
    [i \in 1..Len(ls) |->
        IF /\ \E p \in 1..Len(results) : results[p] = ErrorValue
           /\ \E p \in 1..Len(results) : p <= Len(items) /\ items[p] = i
        THEN rejectItem(ls[i], RawError)
        ELSE ls[i]]

\* Mutant of settleArray: a waiter is matched with the first outcome of
\* its key, not with the outcome at its own position.
settleArrayByKey(items, results, ls) ==
    [i \in 1..Len(ls) |->
        IF \E p \in visited(items, results) : items[p] = i
        THEN LET p == CHOOSE p \in visited(items, results) :
                         /\ ls[items[p]].key = ls[i].key
                         /\ \A q \in visited(items, results) :
                               ls[items[q]].key = ls[i].key => p <= q
             IN CASE demux(results[p]) = "reject" ->
                        rejectItem(ls[i], errorOutcome(results[p], ls[i]))
                  [] demux(results[p]) = "notfound" ->
                        rejectItem(ls[i], notFoundOutcome(ls[i]))
                  [] OTHER -> ls[i]
        ELSE ls[i]]

\* The waiters after results.forEach: Error and null outcomes reject theirs.
settleArray(items, results, ls) ==
    [i \in 1..Len(ls) |->
        IF \E p \in visited(items, results) : items[p] = i
        THEN LET p == CHOOSE p \in visited(items, results) : items[p] = i
             IN CASE demux(results[p]) = "reject" ->
                        rejectItem(ls[i], errorOutcome(results[p], ls[i]))
                  [] demux(results[p]) = "notfound" ->
                        rejectItem(ls[i], notFoundOutcome(ls[i]))
                  [] OTHER -> ls[i]
        ELSE ls[i]]

\* Mutant of settleNonArray: only the first waiter is rejected.
settleNonArrayFirst(items, queries, ls) ==
    [i \in 1..Len(ls) |->
        IF items # <<>> /\ items[1] = i
        THEN rejectItem(ls[i],
                 BatcherError("BatchFunctionError",
                              "batchFunction must return an array", None,
                              None, queries, None))
        ELSE ls[i]]

\* The waiters after a non-array result: all rejected with one
\* BatchFunctionError that carries the whole array of queries.
settleNonArray(items, queries, ls) ==
    [i \in 1..Len(ls) |->
        IF \E p \in 1..Len(items) : items[p] = i
        THEN rejectItem(ls[i],
                 BatcherError("BatchFunctionError",
                              "batchFunction must return an array", None,
                              None, queries, None))
        ELSE ls[i]]

\* Mutant of settleRejected: the thrown reason is passed on as it is
\* (item.reject(error)).
settleRejectedRaw(items, ls, reason) ==
    [i \in 1..Len(ls) |->
        IF \E p \in 1..Len(items) : items[p] = i
        THEN rejectItem(ls[i],
                 BatcherError(reason, None, None, None, <<>>, None))
        ELSE ls[i]]

\* The waiters after batchFunction rejected: each rejected with its own
\* BatchFunctionError wrapping the reason.
settleRejected(items, ls, reason) ==
    [i \in 1..Len(ls) |->
        IF \E p \in 1..Len(items) : items[p] = i
        THEN rejectItem(ls[i],
                 BatcherError("BatchFunctionError",
                              "Error executing batchFunction", None,
                              ls[i].query, <<>>, reason))
        ELSE ls[i]]

\* The arrays batchFunction may resolve with for n queries: shorter than
\* the queries, of their length, or longer by up to MaxSurplus outcomes.
ResultArrays(n) ==
    UNION {[1..len -> Outcomes] : len \in 0..n}
    \cup {r \o extra : r \in [1..n -> Outcomes],
                       extra \in UNION {[1..k -> SurplusOutcomes] :
                                           k \in 1..MaxSurplus}}

\* executeBatch() after the await: batchFunction resolved with an array.
BatchResolvesArray(b, results) ==
    /\ batches[b].st = "flight"
    /\ batches' = [batches EXCEPT
                      ![b].st = "settled", ![b].kind = "array",
                      ![b].result = visitedPrefix(batches[b].items, results),
                      ![b].len = Len(results)]
    /\ loads' = settleArray(batches[b].items, results, loads)
    /\ micro' = micro \o setCalls(batches[b].items, results, loads,
                                  memoryStore, 1)
    /\ UNCHANGED <<cacheVars, envVars, setOutcome, heard, faults, many, schedVars,
                   served, written, userOps>>

\* executeBatch() after the await: batchFunction resolved with a non-array.
BatchResolvesNonArray(b) ==
    /\ batches[b].st = "flight"
    /\ batches' = [batches EXCEPT ![b].st = "settled", ![b].kind = "nonarray"]
    /\ loads' = settleNonArray(batches[b].items, batches[b].queries, loads)
    /\ UNCHANGED <<cacheVars, envVars, setOutcome, heard, faults, many, schedVars,
                   micro, served, written, userOps>>

\* executeBatch(): batchFunction threw or its promise rejected.
BatchRejects(b) ==
    /\ batches[b].st = "flight"
    /\ batches' = [batches EXCEPT ![b].st = "settled", ![b].kind = "rejected"]
    /\ loads' = settleRejected(batches[b].items, loads, Thrown)
    /\ UNCHANGED <<cacheVars, envVars, setOutcome, heard, faults, many, schedVars,
                   micro, served, written, userOps>>

\* ------------------------------------------- loadMany: after batchFunction
\* The setValue calls batchResults.forEach makes, in index order. An index
\* beyond the queries that missed has no entry in queryIndexMap: its key is
\* cacheKeys[undefined], the property name "undefined", and its slot is no
\* index of results.
RECURSIVE manySetCalls(_, _, _, _)
manySetCalls(m, results, store, p) ==
    IF p > Len(results) THEN <<>>
    ELSE (IF demux(results[p]) = "set"
          THEN (IF p <= Len(m.toFetch)
                THEN <<SetCont(-m.toFetch[p],
                           hashFn(m.queries[m.toFetch[p]]), results[p],
                           checkMemoryAvailability(store,
                               hashFn(m.queries[m.toFetch[p]]), results[p]))>>
                ELSE <<SetCont(0, UndefinedKey, results[p],
                           checkMemoryAvailability(store, UndefinedKey,
                                                   results[p]))>>)
          ELSE <<>>)
         \o manySetCalls(m, results, store, p + 1)

\* Mutant of manyFillArray: outcome p is stored at index p of results, not
\* at the index queryIndexMap holds for it.
manyFillArrayByPosition(m, results) ==
    [i \in 1..Len(m.results) |->
        IF i <= Len(results) /\ i <= Len(m.toFetch)
        THEN CASE demux(results[i]) = "reject" -> Slot(None, RawError)
               [] demux(results[i]) = "set" -> Slot(results[i], NoError)
               [] OTHER ->
                    Slot(None, BatcherError("NotFoundError", "Not found",
                             hashFn(m.queries[i]), m.queries[i], <<>>, None))
        ELSE m.results[i]]

\* The result slots after batchResults.forEach.
manyFillArray(m, results) ==
    [i \in 1..Len(m.results) |->
        IF \E p \in 1..Len(results) : p <= Len(m.toFetch) /\ m.toFetch[p] = i
        THEN LET p == CHOOSE p \in 1..Len(results) :
                          p <= Len(m.toFetch) /\ m.toFetch[p] = i
             IN CASE demux(results[p]) = "reject" -> Slot(None, RawError)
                  [] demux(results[p]) = "set" -> Slot(results[p], NoError)
                  [] OTHER ->
                       Slot(None, BatcherError("NotFoundError", "Not found",
                                hashFn(m.queries[i]), m.queries[i], <<>>,
                                None))
        ELSE m.results[i]]

\* Mutant of manyFillFailed: the catch block leaves the slots as the loop
\* filled them.
manyFillFailedKeep(m, reason) == m.results

\* The result slots after the catch block: every query that missed gets a
\* BatchFunctionError wrapping what was thrown.
manyFillFailed(m, reason) ==
    [i \in 1..Len(m.results) |->
        IF \E p \in 1..Len(m.toFetch) : m.toFetch[p] = i
        THEN Slot(None, BatcherError("BatchFunctionError",
                            "Error in batchFunction", None, m.queries[i],
                            <<>>, reason))
        ELSE m.results[i]]

\* loadMany after `await this.batchFunction(queriesToFetch)`: an array.
ManyResolvesArray(results) ==
    /\ many.st = "flight"
    /\ many' = [many EXCEPT !.st = "returned", !.kind = "array",
                            !.len = Len(results),
                            !.result = [p \in 1..Min(Len(results),
                                                     Len(many.toFetch)) |->
                                           results[p]],
                            !.results = manyFillArray(many, results)]
    /\ micro' = micro \o manySetCalls(many, results, memoryStore, 1)
    /\ UNCHANGED <<cacheVars, envVars, setOutcome, heard, faults, schedVars, loads,
                   batches, served, written, userOps>>

\* loadMany after the await: a non-array, which the try block throws a
\* BatchFunctionError for.
ManyResolvesNonArray ==
    /\ many.st = "flight"
    /\ many' = [many EXCEPT !.st = "returned", !.kind = "nonarray",
                            !.results = manyFillFailed(many,
                                            "BatchFunctionError")]
    /\ UNCHANGED <<cacheVars, envVars, setOutcome, heard, faults, schedVars, micro,
                   loads, batches, served, written, userOps>>

\* loadMany: batchFunction threw or its promise rejected.
ManyRejects ==
    /\ many.st = "flight"
    /\ many' = [many EXCEPT !.st = "returned", !.kind = "rejected",
                            !.results = manyFillFailed(many, Thrown)]
    /\ UNCHANGED <<cacheVars, envVars, setOutcome, heard, faults, schedVars, micro,
                   loads, batches, served, written, userOps>>

\* --------------------------------------------------- direct cache calls
\* setValue(key, value) called by the application, up to its await.
SetValueCall(key, value) ==
    /\ userOps > 0
    /\ userOps' = userOps - 1
    /\ micro' = Append(micro, SetCont(0, key, value,
                    checkMemoryAvailability(memoryStore, key, value)))
    /\ UNCHANGED <<cacheVars, envVars, setOutcome, heard, faults, many, schedVars,
                   loads, batches, served, written>>

\* The body of deleteValue(key).
deleteValueBody(key) ==
    /\ memoryStore' = storeDelete(memoryStore, key)
    /\ timeouts' = deleteValueTimeouts(timeouts, expirationTimers, key)
    /\ expirationTimers' = deleteValueTimers(expirationTimers, key)
    /\ armedAt' = [armedAt EXCEPT ![key] = 0]
    /\ heard' = emit(heard, listening,
                     Notification("deleteValue", key, get(memoryStore, key)))
    /\ \E t \in Throws : faults' = IF t THEN faults - 1 ELSE faults
    /\ served' = [served EXCEPT ![key] = None]
    /\ written' = [written EXCEPT ![key] = None]

\* deleteValue(key) called by the application.
DeleteValueCall(key) ==
    /\ userOps > 0
    /\ userOps' = userOps - 1
    /\ deleteValueBody(key)
    /\ UNCHANGED <<envVars, setOutcome, many, schedVars, micro, loads,
                   batches>>

\* Mutant of restartAllValuesTimeouts: the timeouts are left running.
restartAllValuesTimeoutsKeep(tmo, timers) == tmo

\* Object.values(this.expirationTimers).forEach(clearTimeout)
restartAllValuesTimeouts(tmo, timers) ==
    [k \in StoreKeys |->
        IF k \in timers THEN clearTimeoutOf(tmo, k)[k] ELSE tmo[k]]

\* Mutant of ClearCacheCall: the waiters in the queue are dropped and the
\* pending callback is cancelled with the cache.
ClearCacheCallDropsQueue ==
    /\ userOps > 0
    /\ userOps' = userOps - 1
    /\ memoryStore' = <<>>
    /\ armedAt' = [k \in StoreKeys |-> 0]
    /\ heard' = emit(heard, listening, Notification("deleteAlls", None, None))
    /\ \E t \in Throws : faults' = IF t THEN faults - 1 ELSE faults
    /\ timeouts' = restartAllValuesTimeouts(timeouts, expirationTimers)
    /\ expirationTimers' = {}
    /\ served' = [k \in StoreKeys |-> None]
    /\ written' = [k \in StoreKeys |-> None]
    /\ queue' = <<>>
    /\ scheduled' = FALSE
    /\ batchTimers' = 0
    /\ batchArmedAt' = 0
    /\ UNCHANGED <<envVars, setOutcome, many, micro, loads, batches>>

\* clearCache() -> restartAllValues()
ClearCacheCall ==
    /\ userOps > 0
    /\ userOps' = userOps - 1
    /\ memoryStore' = <<>>
    /\ armedAt' = [k \in StoreKeys |-> 0]
    /\ heard' = emit(heard, listening, Notification("deleteAlls", None, None))
    /\ \E t \in Throws : faults' = IF t THEN faults - 1 ELSE faults
    /\ timeouts' = restartAllValuesTimeouts(timeouts, expirationTimers)
    /\ expirationTimers' = {}
    /\ served' = [k \in StoreKeys |-> None]
    /\ written' = [k \in StoreKeys |-> None]
    /\ UNCHANGED <<envVars, setOutcome, many, schedVars, micro, loads,
                   batches>>

\* Mutant of Expire: the callback deletes the value and emits nothing of
\* its own.
ExpireSilent(key) ==
    /\ timeouts[key] > 0
    /\ micro = <<>>
    /\ memoryStore' = storeDelete(memoryStore, key)
    /\ timeouts' = [timeouts EXCEPT ![key] = @ - 1]
    /\ expirationTimers' = deleteValueTimers(expirationTimers, key)
    /\ armedAt' = [armedAt EXCEPT ![key] = 0]
    /\ heard' = emit(heard, listening,
                     Notification("deleteValue", key, get(memoryStore, key)))
    /\ served' = [served EXCEPT ![key] = None]
    /\ written' = [written EXCEPT ![key] = None]
    /\ UNCHANGED <<envVars, setOutcome, many, schedVars, micro, loads,
                   batches, userOps, faults>>

\* The expiration timeout of a key fires: deleteValue(key), then the
\* expiredValue notification (the code after `await this.deleteValue(key)`
\* is the only microtask there is then, and runs at once). When the
\* listener of deleteValue throws, deleteValue rejects and the callback
\* ends there, before its emit.
Expire(key) ==
    /\ timeouts[key] > 0
    /\ micro = <<>>
    /\ memoryStore' = storeDelete(memoryStore, key)
    /\ timeouts' = [timeouts EXCEPT ![key] = @ - 1]
    /\ expirationTimers' = deleteValueTimers(expirationTimers, key)
    /\ armedAt' = [armedAt EXCEPT ![key] = 0]
    /\ \E t \in Throws :
          /\ heard' = IF t
                      THEN emit(heard, listening,
                                Notification("deleteValue", key,
                                             get(memoryStore, key)))
                      ELSE emit(emit(heard, listening,
                                     Notification("deleteValue", key,
                                                  get(memoryStore, key))),
                                listening,
                                Notification("expiredValue", key, None))
          /\ \E u \in (IF t \/ faults = 0 THEN {FALSE} ELSE BOOLEAN) :
                faults' = IF t \/ u THEN faults - 1 ELSE faults
    /\ served' = [served EXCEPT ![key] = None]
    /\ written' = [written EXCEPT ![key] = None]
    /\ UNCHANGED <<envVars, setOutcome, many, schedVars, micro, loads,
                   batches, userOps>>

\* ------------------------------------------------------------------- Next
Next ==
    \/ \E query \in Queries : LoadCall(query)
    \/ RunMicrotask
    \/ ExecuteBatch
    \/ \E b \in 1..Len(batches) :
          \E results \in ResultArrays(Len(batches[b].items)) :
             BatchResolvesArray(b, results)
    \/ \E b \in 1..Len(batches) : BatchResolvesNonArray(b)
    \/ \E b \in 1..Len(batches) : BatchRejects(b)
    \/ \E key \in Keys, value \in Values : SetValueCall(key, value)
    \/ \E key \in Keys : DeleteValueCall(key)
    \/ ClearCacheCall
    \/ \E key \in StoreKeys : Expire(key)

Spec == Init /\ [][Next]_vars

\* The runtime keeps running: a microtask that is queued is run, and a
\* pending timer or immediate callback is run once the microtask queue is
\* empty.
SpecFair ==
    /\ Init
    /\ [][Next]_vars
    /\ WF_vars(RunMicrotask)
    /\ WF_vars(ExecuteBatch)

\* The sequences of queries loadMany is called with.
ManyQueries == UNION {[1..n -> Queries] : n \in 0..MaxManyLen}

\* The batcher with loadMany calls as well.
NextMany ==
    \/ Next
    \/ \E queries \in ManyQueries : ManyCall(queries)
    \/ \E results \in ResultArrays(Len(many.toFetch)) :
          ManyResolvesArray(results)
    \/ ManyResolvesNonArray
    \/ ManyRejects

SpecMany == Init /\ [][NextMany]_vars

\* --------------------------------------------------- the cache in time
\* The clock advances (synchronous code, or waiting, takes time).
Tick ==
    /\ now < MaxTime
    /\ now' = now + 1
    /\ UNCHANGED <<cacheVars, expirationTime, delay, listening, heard, faults, setOutcome,
                   many, schedVars, micro, loads, batches, served, written,
                   userOps>>

\* The runtime runs the expiration callback of a key: never before the
\* delay has passed, and as late as the event loop gets to it.
ExpireDue(key) ==
    /\ now >= armedAt[key] + expirationTime
    /\ Expire(key)

\* What has() reports, as the notification carries it.
hasResult(store, key) == IF has(store, key) THEN "true" ELSE "false"

\* get(key) called by the application.
GetCall(key) ==
    /\ userOps > 0
    /\ userOps' = userOps - 1
    /\ heard' = emit(heard, listening,
                     Notification("getValue", key, get(memoryStore, key)))
    /\ \E t \in Throws : faults' = IF t THEN faults - 1 ELSE faults
    /\ UNCHANGED <<cacheVars, envVars, setOutcome, many, schedVars, micro,
                   loads, batches, served, written>>

\* has(key) called by the application.
HasCall(key) ==
    /\ userOps > 0
    /\ userOps' = userOps - 1
    /\ heard' = emit(heard, listening,
                     Notification("has", key, hasResult(memoryStore, key)))
    /\ \E t \in Throws : faults' = IF t THEN faults - 1 ELSE faults
    /\ UNCHANGED <<cacheVars, envVars, setOutcome, many, schedVars, micro,
                   loads, batches, served, written>>

\* A batcher used as a cache only, with a subscriber attached, with or
\* without expiration.
InitCache ==
    /\ memoryStore = <<>>
    /\ expirationTimers = {}
    /\ timeouts = [k \in StoreKeys |-> 0]
    /\ armedAt = [k \in StoreKeys |-> 0]
    /\ expirationTime \in {0, ExpirationT}
    /\ delay = 0
    /\ now = 0
    /\ listening = TRUE
    /\ heard = <<>>
    /\ faults = 0
    /\ setOutcome = None
    /\ queue = <<>>
    /\ scheduled = FALSE
    /\ batchTimers = 0
    /\ batchArmedAt = 0
    /\ micro = <<>>
    /\ loads = <<>>
    /\ batches = <<>>
    /\ served = [k \in StoreKeys |-> None]
    /\ written = [k \in StoreKeys |-> None]
    /\ userOps = MaxCacheOps
    /\ many = NoMany

NextCache ==
    \/ \E key \in Keys, value \in Values : SetValueCall(key, value)
    \/ RunMicrotask
    \/ \E key \in Keys : DeleteValueCall(key)
    \/ ClearCacheCall
    \/ \E key \in Keys : GetCall(key)
    \/ \E key \in Keys : HasCall(key)
    \/ Tick
    \/ \E key \in Keys : ExpireDue(key)

SpecCache == InitCache /\ [][NextCache]_vars

\* The batcher with a subscriber attached to its notifications.
InitHeard ==
    /\ memoryStore = <<>>
    /\ expirationTimers = {}
    /\ timeouts = [k \in StoreKeys |-> 0]
    /\ armedAt = [k \in StoreKeys |-> 0]
    /\ expirationTime = 1
    /\ delay = 0
    /\ now = 0
    /\ listening = TRUE
    /\ heard = <<>>
    /\ faults = 0
    /\ setOutcome = None
    /\ queue = <<>>
    /\ scheduled = FALSE
    /\ batchTimers = 0
    /\ batchArmedAt = 0
    /\ micro = <<>>
    /\ loads = <<>>
    /\ batches = <<>>
    /\ served = [k \in StoreKeys |-> None]
    /\ written = [k \in StoreKeys |-> None]
    /\ userOps = MaxUserOps
    /\ many = NoMany

SpecHeard == InitHeard /\ [][Next]_vars

\* ------------------------------------------------ the batch window in time
\* Mutant of batchDue: the callback is always armed with setImmediate.
batchDueImmediate(armed, d, t) == TRUE

\* scheduleBatch() arms setTimeout(..., this.delay) when delay > 0 and
\* setImmediate otherwise: whether the runtime may run the callback armed at
\* time `armed` when the clock shows t.
batchDue(armed, d, t) == IF d > 0 THEN t >= armed + d ELSE TRUE

\* The runtime runs the callback of executeBatch: never before the delay has
\* passed, and as late as the event loop gets to it.
ExecuteBatchDue ==
    /\ batchDue(batchArmedAt, delay, now)
    /\ ExecuteBatch

\* The batcher constructed with or without a delay, and no expiration.
InitDelay ==
    /\ memoryStore = <<>>
    /\ expirationTimers = {}
    /\ timeouts = [k \in StoreKeys |-> 0]
    /\ armedAt = [k \in StoreKeys |-> 0]
    /\ expirationTime = 0
    /\ delay \in {0, DelayD}
    /\ now = 0
    /\ listening = FALSE
    /\ heard = <<>>
    /\ faults = 0
    /\ setOutcome = None
    /\ queue = <<>>
    /\ scheduled = FALSE
    /\ batchTimers = 0
    /\ batchArmedAt = 0
    /\ micro = <<>>
    /\ loads = <<>>
    /\ batches = <<>>
    /\ served = [k \in StoreKeys |-> None]
    /\ written = [k \in StoreKeys |-> None]
    /\ userOps = 0
    /\ many = NoMany

NextDelay ==
    \/ \E query \in Queries : LoadCall(query)
    \/ RunMicrotask
    \/ ExecuteBatchDue
    \/ \E b \in 1..Len(batches) :
          \E results \in ResultArrays(Len(batches[b].items)) :
             BatchResolvesArray(b, results)
    \/ \E b \in 1..Len(batches) : BatchResolvesNonArray(b)
    \/ \E b \in 1..Len(batches) : BatchRejects(b)
    \/ Tick

SpecDelay == InitDelay /\ [][NextDelay]_vars

\* ------------------------------------------ a subscriber that may throw
\* The batcher with a subscriber attached whose listeners may throw, no
\* expiration, and an application that calls load and loadMany only.
InitThrow ==
    /\ memoryStore = <<>>
    /\ expirationTimers = {}
    /\ timeouts = [k \in StoreKeys |-> 0]
    /\ armedAt = [k \in StoreKeys |-> 0]
    /\ expirationTime = 0
    /\ delay = 0
    /\ now = 0
    /\ listening = FALSE
    /\ heard = <<>>
    /\ faults = MaxFaults
    /\ setOutcome = None
    /\ queue = <<>>
    /\ scheduled = FALSE
    /\ batchTimers = 0
    /\ batchArmedAt = 0
    /\ micro = <<>>
    /\ loads = <<>>
    /\ batches = <<>>
    /\ served = [k \in StoreKeys |-> None]
    /\ written = [k \in StoreKeys |-> None]
    /\ userOps = 0
    /\ many = NoMany

NextThrow ==
    \/ \E query \in Queries : LoadCall(query)
    \/ RunMicrotask
    \/ ExecuteBatch
    \/ \E b \in 1..Len(batches) :
          \E results \in ResultArrays(Len(batches[b].items)) :
             BatchResolvesArray(b, results)
    \/ \E b \in 1..Len(batches) : BatchResolvesNonArray(b)
    \/ \E b \in 1..Len(batches) : BatchRejects(b)
    \/ \E queries \in ManyQueries : ManyCall(queries)
    \/ \E results \in ResultArrays(Len(many.toFetch)) :
          ManyResolvesArray(results)
    \/ ManyResolvesNonArray
    \/ ManyRejects

SpecThrow == InitThrow /\ [][NextThrow]_vars

\* ----------------------------------------- one load beside one loadMany
\* The batcher of SpecThrow with room for one failure in each of two
\* operations, and loadMany called with a single query.
InitAgree ==
    /\ memoryStore = <<>>
    /\ expirationTimers = {}
    /\ timeouts = [k \in StoreKeys |-> 0]
    /\ armedAt = [k \in StoreKeys |-> 0]
    /\ expirationTime = 0
    /\ delay = 0
    /\ now = 0
    /\ listening = FALSE
    /\ heard = <<>>
    /\ faults = MaxFaults + 1
    /\ setOutcome = None
    /\ queue = <<>>
    /\ scheduled = FALSE
    /\ batchTimers = 0
    /\ batchArmedAt = 0
    /\ micro = <<>>
    /\ loads = <<>>
    /\ batches = <<>>
    /\ served = [k \in StoreKeys |-> None]
    /\ written = [k \in StoreKeys |-> None]
    /\ userOps = 0
    /\ many = NoMany

NextAgree ==
    \/ \E query \in Queries : LoadCall(query)
    \/ RunMicrotask
    \/ ExecuteBatch
    \/ \E b \in 1..Len(batches) :
          \E results \in ResultArrays(Len(batches[b].items)) :
             BatchResolvesArray(b, results)
    \/ \E b \in 1..Len(batches) : BatchResolvesNonArray(b)
    \/ \E b \in 1..Len(batches) : BatchRejects(b)
    \/ \E query \in Queries : ManyCall(<<query>>)
    \/ \E results \in ResultArrays(Len(many.toFetch)) :
          ManyResolvesArray(results)
    \/ ManyResolvesNonArray
    \/ ManyRejects

SpecAgree == InitAgree /\ [][NextAgree]_vars

\* Type correctness of the state.
TypeOK ==
    /\ DOMAIN memoryStore \subseteq StoreKeys
    /\ \A k \in DOMAIN memoryStore : memoryStore[k] \in Values \cup {Undefined}
    /\ expirationTimers \subseteq StoreKeys
    /\ scheduled \in BOOLEAN
    /\ batchTimers \in 0..1
    /\ batchArmedAt \in 0..MaxTime
    /\ delay \in {0, DelayD}
    /\ Len(loads) <= MaxLoads
    /\ now \in 0..MaxTime
    /\ listening \in BOOLEAN
    /\ setOutcome \in {None, "resolved", MemoryLimitError, SubscriberError}
    /\ faults \in 0..(MaxFaults + 1)
    /\ \A n \in 1..Len(heard) :
          heard[n].ev \in {"getValue", "has", "setValue", "deleteValue",
                           "deleteAlls", "expiredValue", "cacheHit",
                           "cacheMiss"}

\* ================================================================= claims
\* ----------------------------------------------------------- vocabulary
Ids == 1..Len(loads)
BatchIds == 1..Len(batches)
Positions(b) == 1..Len(batches[b].items)

\* The load at position p of batch b.
WaiterAt(b, p) == loads[batches[b].items[p]]

\* A setValue started for waiter id has not run its continuation yet.
WritePending(id) ==
    \E n \in 1..Len(micro) : micro[n].type = "set" /\ micro[n].id = id

\* The promise of batch b settled and every cache write it started is over.
BatchOver(b) ==
    /\ batches[b].st = "settled"
    /\ \A p \in Positions(b) : ~WritePending(batches[b].items[p])

\* Position p of batch b has an outcome in the array batchFunction returned.
HasOutcome(b, p) == batches[b].kind = "array" /\ p <= batches[b].len

\* The loads that missed the cache among those called after `e` runs of the
\* batch timer callback and before the next one, in call order.
RECURSIVE MissedFrom(_, _)
MissedFrom(e, i) ==
    IF i > Len(loads) THEN <<>>
    ELSE (IF loads[i].epoch = e /\ loads[i].st \in {"queued", "batched"}
          THEN <<i>> ELSE <<>>) \o MissedFrom(e, i + 1)

\* C1 (coalescing): the load calls made between two consecutive runs of the
\* batch timer callback that miss the cache are handed to batchFunction in
\* exactly one invocation, whose argument is their normalized queries in the
\* order the calls were made; and they wait in the queue in call order until
\* then.
C1_Coalescing ==
    /\ \A b \in BatchIds :
          /\ batches[b].items = MissedFrom(b - 1, 1)
          /\ Len(batches[b].queries) = Len(batches[b].items)
          /\ \A p \in Positions(b) :
                batches[b].queries[p] = WaiterAt(b, p).query
    /\ queue = MissedFrom(Len(batches), 1)

\* C1 witness: one batchFunction invocation got two loads of distinct keys,
\* made in one burst, in call order.
C1_Witness ==
    \E b \in BatchIds :
        /\ batches[b].queries = <<"qb", "qa">>
        /\ batches[b].items = <<1, 2>>
        /\ loads[1].epoch = loads[2].epoch

\* What the cache lookup of index j of the loadMany call read.
ManyLookup(j) ==
    IF j <= Len(many.results) THEN many.results[j].value ELSE many.read

\* Index j of the loadMany call was, or will be, sent to batchFunction.
ManyMissed(j) ==
    \/ \E p \in 1..Len(many.toFetch) : many.toFetch[p] = j
    \/ j > Len(many.results) /\ many.read = Undefined

\* C2 (as claimed): once a load for key k has resolved with a value v, every
\* later load or loadMany for k returns v and does not send k to
\* batchFunction, as long as k was not deleted, cleared or expired.
C2_ServedFromCache ==
    /\ \A i \in Ids :
          loads[i].servedAt # None =>
              /\ loads[i].cached = loads[i].servedAt
              /\ loads[i].st \in {"get", "hit"}
              /\ loads[i].st = "hit" => loads[i].value = loads[i].servedAt
    /\ \A j \in 1..Len(many.servedAt) :
          many.servedAt[j] # None =>
              /\ ManyLookup(j) = many.servedAt[j]
              /\ ~ManyMissed(j)

\* C2 (amended): once a load for key k has resolved with a value v, every
\* later load or loadMany for k returns v and does not send k to
\* batchFunction, as long as k was not deleted, cleared or expired and no
\* later cache write (a setValue call, or the result of another batch or
\* loadMany) has put another value under k.
C2_ServedUnlessOverwritten ==
    /\ \A i \in Ids :
          loads[i].writtenAt # None =>
              /\ loads[i].cached = loads[i].writtenAt
              /\ loads[i].st \in {"get", "hit"}
              /\ loads[i].st = "hit" => loads[i].value = loads[i].writtenAt
    /\ \A j \in 1..Len(many.writtenAt) :
          many.writtenAt[j] # None =>
              /\ ManyLookup(j) = many.writtenAt[j]
              /\ ~ManyMissed(j)

\* C2 witness: a load resolved with a value fetched by its batch, and a
\* later loadMany of two queries answered that key from the cache while
\* sending the other one to batchFunction.
C2_Witness ==
    /\ Len(loads) = 1
    /\ loads[1].st = "batched" /\ loads[1].kind = "resolved"
    /\ many.st = "flight"
    /\ Len(many.results) = 2
    /\ \E j \in 1..2 :
          /\ many.writtenAt[j] = loads[1].value
          /\ hashFn(many.queries[j]) = loads[1].key
          /\ many.results[j].value = loads[1].value
          /\ many.toFetch = <<3 - j>>

\* C3 (as claimed): once the batchFunction promise of a batch has settled and
\* its cache writes are over, every waiter of the batch has been settled
\* exactly once, whatever the outcome was; and no waiter is ever settled
\* twice.
C3_SettledExactlyOnce ==
    /\ \A i \in Ids : loads[i].settles <= 1
    /\ \A b \in BatchIds :
          BatchOver(b) => \A p \in Positions(b) : WaiterAt(b, p).settles = 1

\* C4 (per-key isolation): in a batch whose batchFunction returned an array,
\* a waiter whose outcome is an Error or null is rejected; a waiter whose
\* outcome is a value is untouched by its siblings' outcomes: it is pending
\* while its cache write runs, and then either resolved with exactly its
\* own outcome or (the write failed) rejected with a CacheError.
C4_PerKeyIsolation ==
    \A b \in BatchIds : \A p \in Positions(b) :
        HasOutcome(b, p) =>
            LET w == WaiterAt(b, p)
                r == batches[b].result[p]
            IN /\ r \in {ErrorValue, Null} =>
                    w.kind = "rejected" /\ w.settles = 1
               /\ r \in Values =>
                    \/ w.kind = "pending" /\ w.settles = 0
                          /\ WritePending(batches[b].items[p])
                    \/ w.kind = "resolved" /\ w.value = r /\ w.settles = 1
                    \/ w.kind = "rejected" /\ w.err.cls = "CacheError"
                          /\ w.settles = 1

\* C4 witness: an Error at position 1, and the waiter at position 2 resolved
\* with its own value.
C4_Witness ==
    \E b \in BatchIds :
        /\ Len(batches[b].items) = 2
        /\ batches[b].kind = "array"
        /\ batches[b].result = <<ErrorValue, "v2">>
        /\ WaiterAt(b, 1).kind = "rejected"
        /\ WaiterAt(b, 2).kind = "resolved" /\ WaiterAt(b, 2).value = "v2"

\* C5 (as claimed): when batchFunction resolves with an array whose length
\* differs from the number of queries, every waiter of the batch is rejected
\* with a BatchFunctionError.
C5_WrongLengthFailsAll ==
    \A b \in BatchIds :
        (BatchOver(b) /\ batches[b].kind = "array"
            /\ batches[b].len # Len(batches[b].items)) =>
        \A p \in Positions(b) :
            /\ WaiterAt(b, p).kind = "rejected"
            /\ WaiterAt(b, p).err.cls = "BatchFunctionError"

\* The value that belongs to the key of a query in the data set behind
\* batchFunction (for the claims that speak of a key's own value).
ownValue(query) == IF query = "qa" THEN "v1" ELSE "v2"

\* The array a batchFunction returns that answers each query with its own
\* value but leaves out the queries at the positions in `omitted`.
RECURSIVE answersWithout(_, _, _)
answersWithout(queries, omitted, p) ==
    IF p > Len(queries) THEN <<>>
    ELSE (IF p \in omitted THEN <<>> ELSE <<ownValue(queries[p])>>)
         \o answersWithout(queries, omitted, p + 1)

\* C6 (as claimed): when the array batchFunction resolved with leaves out
\* the outcome of some requested keys, the load of each omitted key is
\* rejected with a 'Not found' error and every other load of the batch is
\* resolved with the value of its own key.
C6_OmittedKeyNotFound ==
    \A b \in BatchIds :
        \A omitted \in (SUBSET Positions(b)) \ {{}} :
            (/\ BatchOver(b)
             /\ batches[b].kind = "array"
             /\ batches[b].len = Len(batches[b].items) - Cardinality(omitted)
             /\ batches[b].result =
                    answersWithout(batches[b].queries, omitted, 1)
             /\ \A p \in Positions(b) : WaiterAt(b, p).err.cls # "CacheError")
            => \A p \in Positions(b) :
                  IF p \in omitted
                  THEN /\ WaiterAt(b, p).kind = "rejected"
                       /\ WaiterAt(b, p).err.cls = "NotFoundError"
                  ELSE /\ WaiterAt(b, p).kind = "resolved"
                       /\ WaiterAt(b, p).value = ownValue(WaiterAt(b, p).query)

\* The handling of batch b's promise is the step being taken.
SettlesNow(b, kind) ==
    /\ b <= Len(batches)
    /\ batches[b].st = "flight"
    /\ batches'[b].st = "settled"
    /\ batches'[b].kind = kind

\* The loads that are no waiters of batch b.
Outsiders(b) == {i \in Ids : \A p \in Positions(b) : batches[b].items[p] # i}

\* C7 (malformed result): when batchFunction resolves with a non-array,
\* every waiter of the batch is rejected, once, with a BatchFunctionError;
\* the step that handles the result changes neither memoryStore nor
\* expirationTimers nor the expiration timeouts, and starts no cache write.
C7_NonArrayFailsAll ==
    /\ [](\A b \in BatchIds :
            batches[b].kind = "nonarray" =>
                \A p \in Positions(b) :
                    /\ WaiterAt(b, p).kind = "rejected"
                    /\ WaiterAt(b, p).err.cls = "BatchFunctionError"
                    /\ WaiterAt(b, p).err.queries = batches[b].queries
                    /\ WaiterAt(b, p).settles = 1
                    /\ ~WritePending(batches[b].items[p]))
    /\ [][\A b \in 1..MaxLoads :
            SettlesNow(b, "nonarray") =>
                /\ UNCHANGED cacheVars
                /\ micro' = micro]_vars

\* C7 witness: a batch of two waiters got a non-array while a value written
\* earlier was in the cache.
C7_Witness ==
    \E b \in BatchIds :
        /\ batches[b].kind = "nonarray"
        /\ Len(batches[b].items) = 2
        /\ WaiterAt(b, 1).kind = "rejected"
        /\ WaiterAt(b, 2).kind = "rejected"
        /\ DOMAIN memoryStore # {}

C9_NullOrAbsentIsNotFound ==
    \A b \in BatchIds : \A p \in Positions(b) :
        (/\ BatchOver(b)
         /\ batches[b].kind = "array"
         /\ \/ ~HasOutcome(b, p)
            \/ batches[b].result[p] \in {Null, Undefined})
        => /\ WaiterAt(b, p).kind = "rejected"
           /\ WaiterAt(b, p).err.cls = "NotFoundError"
           /\ WaiterAt(b, p).err.key = WaiterAt(b, p).key
           /\ WaiterAt(b, p).err.query = WaiterAt(b, p).query

\* C10 (as claimed): an Error outcome at position i makes the waiter at
\* position i fail with a BatchFunctionError that wraps that error as its
\* cause and carries the waiter's original query.
C10_ErrorOutcomeWrapped ==
    \A b \in BatchIds : \A p \in Positions(b) :
        (HasOutcome(b, p) /\ batches[b].result[p] = ErrorValue)
        => /\ WaiterAt(b, p).kind = "rejected"
           /\ WaiterAt(b, p).err.cls = "BatchFunctionError"
           /\ WaiterAt(b, p).err.cause = ErrorValue
           /\ WaiterAt(b, p).err.query = WaiterAt(b, p).query

\* C10 (amended): an Error outcome at position i makes the waiter at
\* position i fail, once, with that Error value itself: it is not wrapped in
\* a BatchFunctionError and carries neither a cause nor the query.
C10_ErrorOutcomeRaw ==
    \A b \in BatchIds : \A p \in Positions(b) :
        (HasOutcome(b, p) /\ batches[b].result[p] = ErrorValue)
        => /\ WaiterAt(b, p).kind = "rejected"
           /\ WaiterAt(b, p).err = RawError
           /\ WaiterAt(b, p).settles = 1

\* C10 witness: a waiter was rejected for an Error outcome.
C10_Witness ==
    \E b \in BatchIds : \E p \in Positions(b) :
        /\ HasOutcome(b, p)
        /\ batches[b].result[p] = ErrorValue
        /\ WaiterAt(b, p).kind = "rejected"

\* ------------------------------------------------------------ cache writes
\* The microtask being run is the code after the memory check of a
\* setValue call.
SetRuns == micro # <<>> /\ Head(micro).type = "set" /\ micro' = Tail(micro)

C12_BoundedCache == sizeofStore(memoryStore) <= MemoryLimit

\* A setValue call is the step being taken: the code after its memory
\* check is queued.
SetStarts ==
    /\ Len(micro') = Len(micro) + 1
    /\ micro'[Len(micro')].type = "set"

\* C13 (memory limit refusal): a setValue call is refused exactly when the
\* estimated size of the store at the call plus that of the new entry
\* exceeds the limit; a refused call rejects with MemoryLimitError, leaves
\* memoryStore, expirationTimers and the expiration timeouts as they are
\* (the key is not added, a value already under the key is kept) and emits
\* no notification.
C13_RefusalLeavesStore ==
    /\ [][SetStarts =>
            LET c == micro'[Len(micro')]
            IN c.ok = (sizeofStore(memoryStore) + sizeofEntry(c.key, c.value)
                          <= MemoryLimit)]_vars
    /\ [][(SetRuns /\ ~Head(micro).ok) =>
            /\ Head(micro).id = 0 => setOutcome' = MemoryLimitError
            /\ memoryStore' = memoryStore
            /\ expirationTimers' = expirationTimers
            /\ timeouts' = timeouts
            /\ heard' = heard]_vars

\* C13 witness: a setValue call was refused while the store held an entry,
\* and the only setValue notification heard is that of the entry.
C13_Witness ==
    /\ setOutcome = MemoryLimitError
    /\ micro = <<>>
    /\ Cardinality(DOMAIN memoryStore) = 1
    /\ Cardinality({n \in 1..Len(heard) : heard[n].ev = "setValue"}) = 1

\* C14 (never evict): neither the call of setValue(k, v) nor the code after
\* its memory check, admitted or refused, removes or changes the value, the
\* timer handle or the live timeout of a key other than k.
C14_NeverEvict ==
    /\ [][SetStarts => UNCHANGED cacheVars]_vars
    /\ [][SetRuns =>
            \A k \in StoreKeys \ {Head(micro).key} :
                /\ has(memoryStore', k) = has(memoryStore, k)
                /\ get(memoryStore', k) = get(memoryStore, k)
                /\ (k \in expirationTimers') = (k \in expirationTimers)
                /\ timeouts'[k] = timeouts[k]
                /\ armedAt'[k] = armedAt[k]]_vars

\* C14 witness: a setValue was admitted for one key while the other key
\* held a value and a timer, and both are there afterwards.
C14_Witness ==
    /\ micro = <<>>
    /\ setOutcome = "resolved"
    /\ DOMAIN memoryStore = Keys
    /\ expirationTimers = Keys
    /\ \A k \in Keys : timeouts[k] = 1
    /\ armedAt["a"] # armedAt["b"]

\* -------------------------------------------------------------- expiration
\* The subscriber hears one more notification in the step being taken.
Hears(evs) ==
    /\ Len(heard') = Len(heard) + 1
    /\ heard'[Len(heard')].ev \in evs

\* C15 (as claimed): with expirationTime > 0, a get or has call made later
\* than expirationTime after the entry of its key was last set does not
\* return the value (get) or true (has), whether or not the timer callback
\* has run by then.
C15_ExpiredNotObservable ==
    [][Hears({"getValue", "has"}) =>
        LET n == heard'[Len(heard')]
        IN (/\ expirationTime > 0
            /\ timeouts[n.key] > 0
            /\ now > armedAt[n.key] + expirationTime)
           => n.value \in {Undefined, "false"}]_vars

\* The expiration callback of key k is the step being taken.
Expires(k) ==
    /\ Len(heard') = Len(heard) + 2
    /\ heard'[Len(heard')] = Notification("expiredValue", k, None)

\* C16 (TTL reset on re-set): with expirationTime > 0, a key has at most
\* one live timeout, the one its handle in expirationTimers names; an
\* admitted setValue leaves the key with exactly one live timeout, armed at
\* the time of that write (the earlier one is cancelled); and the expiration
\* callback of a key runs no earlier than expirationTime after the latest
\* admitted write of the key, so a timer armed by an earlier setValue never
\* removes a value written by a later one.
C16_TtlResetOnReset ==
    /\ [](expirationTime > 0 =>
            \A k \in StoreKeys :
                /\ timeouts[k] <= 1
                /\ (timeouts[k] = 1) = (k \in expirationTimers))
    /\ [][(SetRuns /\ Head(micro).ok /\ expirationTime > 0) =>
            LET k == Head(micro).key
            IN /\ timeouts'[k] = 1
               /\ k \in expirationTimers'
               /\ armedAt'[k] = now
               /\ get(memoryStore', k) = Head(micro).value]_vars
    /\ [][\A k \in StoreKeys :
            Expires(k) =>
                /\ timeouts[k] = 1
                /\ now >= armedAt[k] + expirationTime
                /\ timeouts'[k] = 0
                /\ ~has(memoryStore', k)]_vars

\* C16 witness: a key set at time 0 and set again at time 1 is present at
\* time 2, when the timer of the first write would have fired, with one
\* live timeout armed at time 1.
C16_Witness ==
    /\ expirationTime = ExpirationT
    /\ now = ExpirationT
    /\ micro = <<>>
    /\ \E k \in Keys :
          /\ has(memoryStore, k)
          /\ timeouts[k] = 1
          /\ armedAt[k] = 1
          /\ Len(heard) = 2
          /\ \A n \in 1..2 : heard[n].ev = "setValue" /\ heard[n].key = k

\* ------------------------------------------------------ deleting, clearing
\* C17 (deleteValue): a deleteValue(k) call returns the value stored under k
\* (undefined when there is none), removes k from the store, drops its
\* timer handle and leaves k without a live timeout, and touches no other
\* key; when k is absent already the call changes neither the store nor the
\* timers and reports undefined. No absent key has a live timeout, so no
\* expiration fires for k until it is set again.
C17_DeleteValue ==
    /\ [][Hears({"deleteValue"}) =>
            LET n == heard'[Len(heard')]
                k == n.key
            IN /\ n.value = get(memoryStore, k)
               /\ ~has(memoryStore', k)
               /\ k \notin expirationTimers'
               /\ timeouts'[k] = 0
               /\ \A o \in StoreKeys \ {k} :
                     /\ has(memoryStore', o) = has(memoryStore, o)
                     /\ get(memoryStore', o) = get(memoryStore, o)
                     /\ (o \in expirationTimers') = (o \in expirationTimers)
                     /\ timeouts'[o] = timeouts[o]
               /\ ~has(memoryStore, k) =>
                     /\ n.value = Undefined
                     /\ memoryStore' = memoryStore
                     /\ expirationTimers' = expirationTimers
                     /\ timeouts' = timeouts]_vars
    /\ [](\A k \in StoreKeys : ~has(memoryStore, k) => timeouts[k] = 0)

\* C17 witness: a key that held a value and a timer was deleted twice; the
\* first call returned the value, the second undefined.
C17_Witness ==
    /\ expirationTime > 0
    /\ Len(heard) = 3
    /\ heard[1].ev = "setValue"
    /\ heard[2] = Notification("deleteValue", heard[1].key, heard[1].value)
    /\ heard[3] = Notification("deleteValue", heard[1].key, Undefined)
    /\ memoryStore = <<>>
    /\ \A k \in StoreKeys : timeouts[k] = 0

\* The queries handed to batchFunction so far include that of load i.
SentToBatchFunction(i) ==
    \E b \in BatchIds : \E p \in Positions(b) :
        batches[b].items[p] = i /\ batches[b].queries[p] = loads[i].query

\* C18 (clearCache): a clearCache call leaves the store empty, so that get
\* returns undefined and has returns false for every key, and leaves no
\* timer handle and no live timeout, so that no timer armed before the
\* clear can fire after it; a load reads the store as it is at the call,
\* and a load that read undefined waits in the queue until its query is
\* handed to batchFunction.
C18_ClearCache ==
    /\ [][Hears({"deleteAlls"}) =>
            /\ memoryStore' = <<>>
            /\ \A k \in StoreKeys :
                  /\ get(memoryStore', k) = Undefined
                  /\ ~has(memoryStore', k)
                  /\ timeouts'[k] = 0
            /\ expirationTimers' = {}]_vars
    /\ [][Len(loads') = Len(loads) + 1 =>
            LET l == loads'[Len(loads')]
            IN l.cached = get(memoryStore, l.key)]_vars
    /\ [](\A i \in Ids :
            (loads[i].cached = Undefined /\ loads[i].st # "get") =>
            \/ loads[i].st = "queued" /\ \E p \in 1..Len(queue) : queue[p] = i
            \/ loads[i].st = "batched" /\ SentToBatchFunction(i))

\* C18 witness: a key was fetched and cached by a load, the cache was
\* cleared (nothing expired), and a second load of the key was handed to
\* batchFunction in a second batch.
C18_Witness ==
    /\ Len(loads) = 2 /\ Len(batches) = 2
    /\ loads[1].kind = "resolved" /\ loads[1].st = "batched"
    /\ loads[1].value \in Values
    /\ loads[2].key = loads[1].key
    /\ loads[2].st = "batched"
    /\ batches[2].queries = <<loads[1].query>>
    /\ \E n \in 1..Len(heard) :
          /\ heard[n].ev = "deleteAlls"
          /\ \E s \in 1..(n - 1) :
                heard[s] = Notification("setValue", loads[1].key,
                                        loads[1].value)
    /\ \A n \in 1..Len(heard) : heard[n].ev # "expiredValue"

\* ---------------------------------------------------------------- loadMany
\* The position of index i among the queries handed to batchFunction (0
\* when i was not handed over).
FetchPosition(i) ==
    IF \E p \in 1..Len(many.toFetch) : many.toFetch[p] = i
    THEN CHOOSE p \in 1..Len(many.toFetch) : many.toFetch[p] = i
    ELSE 0

\* C19 (loadMany, one outcome per query): the sequence loadMany returns has
\* the length of queries, and its slot i holds the outcome of queries[i]:
\* the value the cache held for it; or else what batchFunction put at the
\* position the query was handed over at (the Error itself, the value, or a
\* CacheError when the value could not be cached, a NotFoundError for
\* null); a NotFoundError for the query when the array has no such
\* position; a BatchFunctionError for the query when batchFunction failed
\* or returned a non-array.
C19_ManyOneOutcomePerQuery ==
    many.st = "returned" =>
    /\ Len(many.results) = Len(many.queries)
    /\ \A i \in 1..Len(many.queries) :
          LET slot == many.results[i]
              p == FetchPosition(i)
          IN IF many.reads[i] # Undefined
             THEN slot = Slot(many.reads[i], NoError)
             ELSE /\ p > 0
                  /\ CASE many.kind = "array" /\ p <= Len(many.result) ->
                            LET r == many.result[p]
                            IN CASE demux(r) = "reject" ->
                                      slot = Slot(None, RawError)
                                 [] demux(r) = "notfound" ->
                                      /\ slot.err.cls = "NotFoundError"
                                      /\ slot.err.query = many.queries[i]
                                 [] OTHER ->
                                      \/ slot = Slot(r, NoError)
                                      \/ /\ slot.err.cls = "CacheError"
                                         /\ slot.err.query = many.queries[i]
                       [] many.kind = "array" /\ p > Len(many.result) ->
                            /\ slot.err.cls = "NotFoundError"
                            /\ slot.err.query = many.queries[i]
                       [] OTHER ->
                            /\ slot.err.cls = "BatchFunctionError"
                            /\ slot.err.query = many.queries[i]

\* C19 witness: a loadMany of two queries, the first cached, got an array of
\* two outcomes for the one query it handed over, and returned the cached
\* value and the fetched value in their slots.
C19_Witness ==
    /\ many.st = "returned"
    /\ many.kind = "array"
    /\ many.len = 2
    /\ Len(many.queries) = 2
    /\ many.toFetch = <<2>>
    /\ many.reads[1] \in Values
    /\ many.results[1].value = many.reads[1]
    /\ many.result[1] \in Values \ {many.reads[1]}
    /\ many.results[2].value = many.result[1]

\* The indices from i on whose lookup read undefined, in order.
RECURSIVE ManyMisses(_)
ManyMisses(i) ==
    IF i > Len(many.reads) THEN <<>>
    ELSE (IF many.reads[i] = Undefined THEN <<i>> ELSE <<>>)
         \o ManyMisses(i + 1)

\* C20 (loadMany partial hits): each lookup reads the store as it is at the
\* lookup; the queries to fetch are exactly those whose lookup read
\* undefined, in input order; batchFunction is invoked at most once, and
\* only when the loop is over and some query missed; the slot of a cached
\* query holds the value the lookup read.
C20_ManyPartialHits ==
    /\ [][many'.st = "get" /\ many'.idx # many.idx =>
            many'.read = get(memoryStore,
                             hashFn(many'.queries[many'.idx]))]_vars
    /\ [](/\ many.toFetch = ManyMisses(1)
          /\ many.calls <= 1
          /\ many.calls = 1 <=>
                /\ many.st \in {"flight", "returned"}
                /\ many.toFetch # <<>>
          /\ many.st = "flight" => Len(many.reads) = Len(many.queries)
          /\ \A i \in 1..Len(many.reads) :
                many.reads[i] # Undefined =>
                many.results[i] = Slot(many.reads[i], NoError))

\* C20 witness: of two queries the second was cached; batchFunction was
\* invoked once, with the first only.
C20_Witness ==
    /\ many.st = "flight"
    /\ many.calls = 1
    /\ Len(many.queries) = 2
    /\ many.reads[1] = Undefined
    /\ many.reads[2] \in Values
    /\ many.toFetch = <<1>>

C23_ManyMissIsQueued ==
    /\ [][Len(many'.toFetch) > Len(many.toFetch) =>
            Len(queue') = Len(queue) + 1]_vars
    /\ [](many.calls = 0)

\* ------------------------------------------------------------ batch window
\* C24 (same key twice in one burst): a load of a key another load of the
\* same burst is still waiting for is served from the cache and adds no
\* waiter: the queue holds each key at most once, and so does the sequence
\* handed to batchFunction.
C24_SameKeyOncePerBurst ==
    /\ \A m, n \in 1..Len(queue) :
          m # n => loads[queue[m]].key # loads[queue[n]].key
    /\ \A b \in BatchIds :
          \A p, q \in Positions(b) :
             p # q => WaiterAt(b, p).key # WaiterAt(b, q).key

\* ------------------------------------------------------ lookups of load
\* The microtask being run is the code of a load call after its cache
\* lookup.
LoadRuns == micro # <<>> /\ Head(micro).type = "load" /\ micro' = Tail(micro)

\* How many notifications named ev the subscriber has heard.
HeardCount(ev) == Cardinality({n \in 1..Len(heard) : heard[n].ev = ev})

\* C28 (one of cacheHit and cacheMiss per lookup): the code of load after
\* its lookup emits exactly one notification: cacheHit with the value, when
\* the lookup read a value, and then the load resolves with that value at
\* once and nothing is enqueued nor armed; cacheMiss otherwise, and then
\* exactly this load is added at the end of the queue and stays pending. No
\* other step emits either notification, so that the lookups over so far
\* are as many as the cacheHit and cacheMiss notifications together.
C28_HitXorMiss ==
    /\ [][LoadRuns =>
            LET id == Head(micro).id
                l == loads[id]
                n == heard'[Len(heard')]
            IN /\ Len(heard') = Len(heard) + 1
               /\ \A m \in 1..Len(heard) : heard'[m] = heard[m]
               /\ IF l.cached # Undefined
                  THEN /\ n = Notification("cacheHit", l.key, l.cached)
                       /\ loads'[id].kind = "resolved"
                       /\ loads'[id].value = l.cached
                       /\ queue' = queue
                       /\ batchTimers' = batchTimers
                       /\ scheduled' = scheduled
                  ELSE /\ n = Notification("cacheMiss", l.key, None)
                       /\ loads'[id].kind = "pending"
                       /\ queue' = Append(queue, id)]_vars
    /\ [][Hears({"cacheHit", "cacheMiss"}) => LoadRuns]_vars
    /\ [](HeardCount("cacheHit") + HeardCount("cacheMiss") =
             Cardinality({i \in Ids : loads[i].st # "get"}))
    /\ [](\A i \in Ids :
             loads[i].st = "get" \/
             (loads[i].st = "hit" <=> loads[i].cached # Undefined))

\* C28 witness: a load of an uncached key resolved, then a second load of
\* the same key was served from the cache: one cacheMiss and one cacheHit
\* were emitted.
C28_Witness ==
    /\ Len(loads) = 2
    /\ loads[1].key = loads[2].key
    /\ loads[1].kind = "resolved"
    /\ loads[1].cached = Undefined
    /\ loads[2].st = "hit"
    /\ loads[2].value = loads[1].value
    /\ HeardCount("cacheMiss") = 1
    /\ HeardCount("cacheHit") = 1

\* ------------------------------------------------------------- expiration
\* A live timeout of key k is used up by a step that is no call of the
\* application: its callback runs.
Fires(k) == timeouts'[k] < timeouts[k] /\ userOps' = userOps

\* C29 (expiredValue): the step in which the expiration callback of a key
\* runs emits deleteValue and then expiredValue for that key; expiredValue
\* is emitted by no other step: not by a call of the application
\* (deleteValue, clearCache, or any other), and only for a key that had a
\* live timeout, which a cancelled timer is not, and whose delay has
\* elapsed.
C29_ExpiredValue ==
    /\ [][\A k \in Keys : Fires(k) =>
            /\ Len(heard') = Len(heard) + 2
            /\ \A m \in 1..Len(heard) : heard'[m] = heard[m]
            /\ heard'[Len(heard') - 1].ev = "deleteValue"
            /\ heard'[Len(heard') - 1].key = k
            /\ heard'[Len(heard')] = Notification("expiredValue", k, None)
         ]_vars
    /\ [][HeardCount("expiredValue")' # HeardCount("expiredValue") =>
            /\ userOps' = userOps
            /\ HeardCount("expiredValue")' = HeardCount("expiredValue") + 1
            /\ \E k \in Keys :
                  /\ Fires(k)
                  /\ timeouts[k] = 1
                  /\ k \in expirationTimers
                  /\ now >= armedAt[k] + expirationTime
                  /\ heard'[Len(heard')].key = k]_vars
    /\ [](expirationTime = 0 => HeardCount("expiredValue") = 0)

\* C29 witness: two writes were admitted; the application deleted one
\* value, which cancelled its timer, and the timer of the other write fired:
\* the subscriber heard two deleteValue notifications and one expiredValue,
\* the latter last, and no timeout is left.
C29_Witness ==
    /\ HeardCount("expiredValue") = 1
    /\ HeardCount("deleteValue") = 2
    /\ HeardCount("setValue") = 2
    /\ heard[Len(heard)].ev = "expiredValue"
    /\ \A k \in Keys : timeouts[k] = 0

\* ------------------------------------------------------- demultiplexing
\* C30 (positional demultiplexing): the sequence handed to batchFunction is
\* the queries of the captured waiters, in the order they were enqueued,
\* which is the order of their calls; and the waiter at position p is
\* settled from the outcome at position p alone: rejected with that very
\* Error, rejected with a NotFoundError for its own key and query when the
\* outcome is null, and for any other outcome pending while its cache write
\* runs and then resolved with exactly that outcome (or rejected with a
\* CacheError when the write failed), whatever the outcomes of other
\* waiters of the same key are.
C30_PositionalDemux ==
    \A b \in BatchIds :
       /\ batches[b].queries = queriesOf(batches[b].items, loads)
       /\ \A p, q \in Positions(b) :
             p < q => batches[b].items[p] < batches[b].items[q]
       /\ \A p \in Positions(b) :
             HasOutcome(b, p) =>
                LET w == WaiterAt(b, p)
                    r == batches[b].result[p]
                IN CASE r = ErrorValue ->
                          w.kind = "rejected" /\ w.err = RawError
                     [] r = Null ->
                          /\ w.kind = "rejected"
                          /\ w.err.cls = "NotFoundError"
                          /\ w.err.key = w.key
                          /\ w.err.query = w.query
                     [] OTHER ->
                          \/ /\ w.kind = "pending"
                             /\ WritePending(batches[b].items[p])
                          \/ w.kind = "resolved" /\ w.value = r
                          \/ /\ w.kind = "rejected"
                             /\ w.err.cls = "CacheError"
                             /\ w.err.key = w.key

\* C30 witness: two waiters of the same key in one batch, the first rejected
\* with the Error at position 1 and the second resolved with the value at
\* position 2.
C30_Witness ==
    \E b \in BatchIds :
        /\ Len(batches[b].items) = 2
        /\ WaiterAt(b, 1).key = WaiterAt(b, 2).key
        /\ batches[b].kind = "array"
        /\ batches[b].result = <<ErrorValue, "v1">>
        /\ WaiterAt(b, 1).kind = "rejected"
        /\ WaiterAt(b, 1).err = RawError
        /\ WaiterAt(b, 2).kind = "resolved"
        /\ WaiterAt(b, 2).value = "v1"

\* ------------------------------------------------------------ window delay
\* C25 (window delay): with a delay D > 0, batchFunction is invoked for a
\* batch no earlier than D after the first waiter of the batch was
\* enqueued, the waiters wait in the queue, pending, until then, and no load
\* of the batch is settled before that time; the callback is armed when the
\* first waiter is enqueued and not re-armed by the waiters that follow.
C25_WindowDelay ==
    delay > 0 =>
    /\ \A n \in 1..Len(queue) :
          /\ loads[queue[n]].kind = "pending"
          /\ batchTimers = 1
          /\ batchArmedAt = loads[queue[1]].queuedAt
    /\ \A b \in BatchIds :
          batches[b].items # <<>> =>
             /\ batches[b].at >= WaiterAt(b, 1).queuedAt + delay
             /\ \A p \in Positions(b) :
                   /\ WaiterAt(b, p).queuedAt >= WaiterAt(b, 1).queuedAt
                   /\ WaiterAt(b, p).kind # "pending" =>
                         WaiterAt(b, p).settledAt >=
                            WaiterAt(b, 1).queuedAt + delay

\* C25 witness: with a delay, a batch of two waiters enqueued at different
\* times was handed to batchFunction exactly D after the first was
\* enqueued, and its second load resolved.
C25_Witness ==
    /\ delay = DelayD
    /\ \E b \in BatchIds :
          /\ Len(batches[b].items) = 2
          /\ WaiterAt(b, 1).queuedAt = 1
          /\ WaiterAt(b, 2).queuedAt = 2
          /\ batches[b].at = 1 + DelayD
          /\ WaiterAt(b, 2).kind = "resolved"

OwnOutcome(i) ==
    LET slot == many.results[i]
        p == FetchPosition(i)
    IN IF p = 0
       THEN slot = Slot(many.reads[i], NoError)
       ELSE CASE many.kind = "array" /\ p <= Len(many.result) ->
                   LET r == many.result[p]
                   IN CASE demux(r) = "reject" -> slot = Slot(None, RawError)
                        [] demux(r) = "notfound" ->
                             /\ slot.err.cls = "NotFoundError"
                             /\ slot.err.query = many.queries[i]
                        [] OTHER ->
                             \/ slot = Slot(r, NoError)
                             \/ /\ slot.err.cls = "CacheError"
                                /\ slot.err.query = many.queries[i]
              [] many.kind = "array" /\ p > Len(many.result) ->
                   /\ slot.err.cls \in {"NotFoundError", "CacheError"}
                   /\ slot.err.cls = "CacheError" <=> i \in many.caught
                   /\ slot.err.query = many.queries[i]
              [] OTHER ->
                   /\ slot.err.cls = "BatchFunctionError"
                   /\ slot.err.query = many.queries[i]

\* C22 (loadMany cache-failure isolation): a lookup of loadMany that fails
\* fills the slot of its own query and leaves the slots filled before as
\* they are; a cache write of loadMany that fails replaces the slot of its
\* own query by a CacheError for that query and leaves every other slot as
\* it is, and one that succeeds changes no slot; and in the sequence
\* loadMany returned, the slot of every query holds what its own lookup and
\* the outcome at its own position give, whether or not the lookup or the
\* write of another query failed: a query is fetched iff its lookup missed
\* or failed.
C22_ManyCacheFailureIsolated ==
    /\ [][many.st = "get" /\ many'.st # "idle"
             /\ Len(many'.results) > Len(many.results) =>
            /\ Len(many'.results) = Len(many.results) + 1
            /\ \A j \in 1..Len(many.results) :
                  many'.results[j] = many.results[j]]_vars
    /\ [][SetRuns /\ Head(micro).id < 0 =>
            LET i == -Head(micro).id
            IN /\ \A j \in 1..Len(many.results) :
                     j # i => many'.results[j] = many.results[j]
               /\ \/ many'.results[i] = many.results[i]
                  \/ /\ many'.results[i].err.cls = "CacheError"
                     /\ many'.results[i].err.query = many.queries[i]
                     /\ many'.results[i].err.cause
                           \in {MemoryLimitError, SubscriberError}]_vars
    /\ [](many.st = "returned" =>
            /\ Len(many.results) = Len(many.queries)
            /\ \A i \in 1..Len(many.queries) :
                  /\ OwnOutcome(i)
                  /\ FetchPosition(i) = 0 <=>
                        /\ i \notin many.caught
                        /\ many.reads[i] # Undefined)

\* C22 witness: in a loadMany of two queries the lookup of the first
\* failed and the second was cached: the first was fetched and holds the
\* fetched value, the second holds its cached value.
C22_Witness ==
    /\ many.st = "returned"
    /\ Len(many.queries) = 2
    /\ many.caught = {1}
    /\ many.reads[1] = SubscriberError
    /\ many.reads[2] \in Values
    /\ many.toFetch = <<1>>
    /\ many.kind = "array"
    /\ many.results[1] = Slot(many.result[1], NoError)
    /\ many.results[2] = Slot(many.reads[2], NoError)

\* ------------------------------------------------ throwing subscribers
\* C27 (as claimed): an exception thrown by a subscriber never reaches the
\* result of the operation that emitted: no load is rejected for it, with
\* the exception itself or with an error that wraps it; a load whose lookup
\* is over resolved from the cache or became a waiter; and no slot of
\* loadMany holds an error that wraps it.
C27_SubscribersNeverMatter ==
    /\ \A i \in Ids :
          /\ loads[i].cached # SubscriberError
          /\ loads[i].st # "failed"
          /\ loads[i].err.cls # SubscriberError
          /\ loads[i].err.cause # SubscriberError
    /\ \A i \in 1..Len(many.results) :
          many.results[i].err.cause # SubscriberError
    /\ many.caught = {}

\* ---------------------------------------------------------- the scheduler
\* The callback of executeBatch is the step being taken.
Flushes == Len(batches') = Len(batches) + 1

\* The waiters captured by the batches so far.
Captured ==
    UNION {{batches[b].items[p] : p \in Positions(b)} : b \in BatchIds}

\* C31 (atomic swap): the step of the batch timer callback captures the
\* whole queue as the new batch, leaves the queue empty and scheduled
\* false, and invokes batchFunction with the captured queries; the waiters
\* of a captured batch never change afterwards; a load is a waiter of at
\* most one batch and never of a batch and the queue; and a load that
\* misses after the capture, also while that fetch is in flight, is put in
\* the fresh queue, arms a timer of its own when it is the first, and is
\* captured only by a batch invoked after its call.
C31_AtomicSwap ==
    /\ [][Flushes =>
            LET n == Len(batches')
            IN /\ batches'[n].items = queue
               /\ batches'[n].queries = queriesOf(queue, loads)
               /\ batches'[n].st = "flight"
               /\ queue' = <<>>
               /\ scheduled' = FALSE]_vars
    /\ [][\A b \in BatchIds :
            /\ batches'[b].items = batches[b].items
            /\ batches'[b].queries = batches[b].queries]_vars
    /\ [][LoadRuns /\ Len(queue') > Len(queue) /\ queue = <<>> =>
            /\ queue' = <<Head(micro).id>>
            /\ batchTimers' = batchTimers + 1
            /\ scheduled']_vars
    /\ [](/\ \A n \in 1..Len(queue) : queue[n] \notin Captured
          /\ \A b, c \in BatchIds :
                \A p \in Positions(b) : \A q \in Positions(c) :
                   batches[b].items[p] = batches[c].items[q] =>
                      b = c /\ p = q
          /\ \A b \in BatchIds : \A p \in Positions(b) :
                WaiterAt(b, p).epoch < b)

\* C31 witness: while the fetch of the first batch is in flight a load
\* missed, was put in the fresh queue and armed a timer; that timer fired
\* and batchFunction was invoked a second time, with that load alone.
C31_Witness ==
    /\ Len(batches) = 2
    /\ batches[1].st = "flight"
    /\ batches[1].items = <<1>>
    /\ batches[2].items = <<2>>
    /\ loads[2].epoch = 1
    /\ queue = <<>>

\* The step in which a load that missed is put in the queue.
Enqueues == LoadRuns /\ Len(queue') > Len(queue)

\* C32 (at most one armed batch): at most one callback of executeBatch is
\* pending at any time; a load that misses while one is pending joins the
\* queue and arms none; a load that misses while none is pending arms
\* exactly one.
C32_AtMostOneArmed ==
    /\ [](batchTimers <= 1)
    /\ [][Enqueues =>
            /\ queue' = Append(queue, Head(micro).id)
            /\ batchTimers' = 1
            /\ batchTimers = 1 => batchArmedAt' = batchArmedAt
            /\ batchTimers = 0 => queue = <<>>]_vars

\* C32 witness: two waiters in the queue and one pending callback.
C32_Witness ==
    /\ Len(queue) = 2
    /\ batchTimers = 1
    /\ scheduled

\* C33 (no stranded waiters): whenever the queue holds a waiter, scheduled
\* is true and a callback of executeBatch is pending; scheduled is true
\* exactly while a callback is pending, and a callback is pending only
\* while the queue holds a waiter; and, the runtime running its microtasks
\* and timers, every waiter of the queue is eventually captured by a batch.
C33_NoStrandedWaiters ==
    /\ [](/\ queue # <<>> => scheduled /\ batchTimers = 1
          /\ scheduled <=> batchTimers = 1
          /\ batchTimers = 1 => queue # <<>>
          /\ \A i \in Ids : loads[i].st = "queued" <=>
                \E n \in 1..Len(queue) : queue[n] = i)
    /\ \A i \in 1..MaxLoads :
          (i \in Ids /\ loads[i].st = "queued")
             ~> (i \in Ids /\ loads[i].st = "batched")

\* C33 witness: a waiter that was in the queue behind a pending callback
\* has been captured by a batch, and the queue is empty with no callback
\* pending and scheduled false.
C33_Witness ==
    /\ Len(batches) = 1
    /\ Len(batches[1].items) = 2
    /\ loads[2].st = "batched"
    /\ queue = <<>>
    /\ ~scheduled
    /\ batchTimers = 0

\* C34 (batchFunction never gets an empty sequence): a callback is pending
\* only with a waiter in the queue and every batch holds at least one waiter;
\* loadMany calls batchFunction only with at least one query to fetch, and
\* a loadMany none of whose queries missed the cache returns without a call.
C34_NeverEmptyBatch ==
    /\ \A b \in BatchIds : batches[b].items # <<>>
    /\ batchTimers = 1 => queue # <<>>
    /\ many.st = "flight" => many.toFetch # <<>>
    /\ many.calls > 0 => many.toFetch # <<>>
    /\ (many.st = "returned" /\ many.toFetch = <<>>) => many.calls = 0

\* C34 witness: a loadMany of two queries found both in the cache and
\* returned their values without a call of batchFunction, after a batch of
\* one waiter had been flushed.
C34_Witness ==
    /\ many.st = "returned"
    /\ Len(many.queries) = 2
    /\ many.toFetch = <<>>
    /\ many.calls = 0
    /\ \A i \in 1..2 : many.results[i].value \in Values
    /\ Len(batches) >= 1

\* C35 (timer/store consistency): with expirationTime > 0 the keys holding a
\* live expiration timeout are the keys with a handle in expirationTimers
\* and are the keys present in memoryStore, with at most one live timeout
\* per key; with expirationTime = 0 there is neither a handle nor a timeout.
C35_TimersMatchStore ==
    LET live == {k \in StoreKeys : timeouts[k] > 0}
    IN /\ \A k \in StoreKeys : timeouts[k] <= 1
       /\ expirationTime > 0 =>
             /\ live = DOMAIN memoryStore
             /\ expirationTimers = DOMAIN memoryStore
       /\ expirationTime = 0 => live = {} /\ expirationTimers = {}

\* C35 witness: with expirationTime > 0 two keys were written, the value of
\* "b" has expired and "a" is still stored under its one live timeout.
C35_Witness ==
    /\ expirationTime > 0
    /\ DOMAIN memoryStore = {"a"}
    /\ expirationTimers = {"a"}
    /\ timeouts["a"] = 1
    /\ timeouts["b"] = 0
    /\ \E n \in 1..Len(heard) : heard[n] = Notification("expiredValue", "b", None)

\* ------------------------------------------------------- negative outcomes
\* An outcome that is an Error or null.
Negative(outcome) == outcome \in {ErrorValue, Null}

\* The cache writes started by the step being taken for waiter (or slot) id.
StartedFor(id) ==
    {n \in (Len(micro) + 1)..Len(micro') :
        micro'[n].type = "set" /\ micro'[n].id = id}

\* The promise of batch b is settled by the step being taken.
BatchSettles(b) == batches[b].st = "flight" /\ batches'[b].st = "settled"

\* The promise loadMany awaits is settled by the step being taken.
ManySettles == many.st = "flight" /\ many'.st = "returned"

\* The outcomes that are no Error and not null and were given for key k: by
\* a batch at the position of a waiter of k, or to loadMany at the position
\* of a query of k.
ValuedOutcomes(k) ==
    UNION {{batches[b].result[p] : p \in {q \in Positions(b) :
                /\ HasOutcome(b, q)
                /\ WaiterAt(b, q).key = k
                /\ ~Negative(batches[b].result[q])}} : b \in BatchIds}
    \cup {many.result[p] : p \in {q \in 1..Len(many.result) :
                /\ many.kind = "array"
                /\ hashFn(many.queries[many.toFetch[q]]) = k
                /\ ~Negative(many.result[q])}}

\* C36 (no negative caching): the step that settles a batch or the call of
\* batchFunction in loadMany starts a cache write for a waiter or a slot
\* only when its outcome is neither an Error nor null and the result is an
\* array, and writes nothing itself; no cache write ever carries an Error or
\* null; while the application has made no cache call of its own, a key is
\* in the store only with a value that was given as such an outcome for it;
\* and a load whose lookup found nothing goes to the queue and from there
\* into a batch.
C36_NoNegativeCaching ==
    /\ [](/\ \A n \in 1..Len(micro) :
                micro[n].type = "set" => ~Negative(micro[n].value)
          /\ userOps = MaxUserOps =>
                \A k \in Keys : k \in DOMAIN memoryStore =>
                                   memoryStore[k] \in ValuedOutcomes(k)
          /\ \A i \in Ids :
                loads[i].cached = Undefined /\ loads[i].st # "get" =>
                   \/ \E n \in 1..Len(queue) : queue[n] = i
                   \/ i \in Captured)
    /\ [][/\ \A b \in BatchIds : BatchSettles(b) =>
                /\ memoryStore' = memoryStore
                /\ \A p \in Positions(b) :
                      (StartedFor(batches[b].items[p]) # {}) <=>
                         /\ batches'[b].kind = "array"
                         /\ p <= batches'[b].len
                         /\ ~Negative(batches'[b].result[p])
          /\ ManySettles =>
                /\ memoryStore' = memoryStore
                /\ \A p \in 1..Len(many.toFetch) :
                      (StartedFor(-many.toFetch[p]) # {}) <=>
                         /\ many'.kind = "array"
                         /\ p <= Len(many'.result)
                         /\ ~Negative(many'.result[p])]_vars

\* C36 witness: the first load of key "a" got null from its batch and was
\* rejected, the key is absent from the store, and a second load of the key
\* found nothing and was sent to batchFunction in a second batch.
C36_Witness ==
    /\ Len(batches) = 2
    /\ Len(loads) = 2
    /\ loads[1].key = "a" /\ loads[2].key = "a"
    /\ batches[1].items = <<1>> /\ batches[2].items = <<2>>
    /\ batches[1].st = "settled" /\ batches[1].kind = "array"
    /\ batches[1].len = 1 /\ batches[1].result[1] = Null
    /\ loads[1].kind = "rejected"
    /\ loads[2].cached = Undefined
    /\ "a" \notin DOMAIN memoryStore

\* The keys derived from the queries that were requested so far.
RequestedKeys ==
    {loads[i].key : i \in Ids}
    \cup {hashFn(many.queries[i]) : i \in 1..Len(many.queries)}

\* C37 (surplus outcomes are ignored): an outcome at a position beyond the
\* last query causes no cache write, so every cache write under way and
\* every entry of the store carries the key of a query; and, while the
\* application has made no cache call of its own, the key of a query that
\* was requested.
C37_SurplusIgnored ==
    /\ \A n \in 1..Len(micro) : micro[n].type = "set" => micro[n].key \in Keys
    /\ DOMAIN memoryStore \subseteq Keys
    /\ userOps = MaxUserOps => DOMAIN memoryStore \subseteq RequestedKeys

\* C38 (the sequence loadMany returned is final): once loadMany has
\* returned, no step changes a slot of the sequence it returned.
C38_ManyResultFinal ==
    [][many.st = "returned" => many'.results = many.results]_vars

\* ------------------------------------------- the cache and the scheduler
\* The step being taken is a deleteValue or a clearCache call of the
\* application.
CacheRemoval == userOps' = userOps - 1 /\ micro' = micro

\* C39 (clearCache and deleteValue leave the scheduler untouched): a
\* deleteValue or clearCache call changes neither the queue, the scheduled
\* flag, the pending callback, the batches, the waiters nor the cache
\* writes under way; a cache write that was admitted still writes its value
\* under its key and resolves its waiter, whatever was removed before; and
\* once a batch is over each waiter that has an outcome is settled with the
\* outcome at its own position.
C39_RemovalLeavesScheduler ==
    /\ [][CacheRemoval =>
             UNCHANGED <<queue, scheduled, batchTimers, batchArmedAt,
                         batches, loads, micro>>]_vars
    /\ [][(SetRuns /\ Head(micro).ok) =>
             LET m == Head(micro)
             IN /\ m.key \in DOMAIN memoryStore'
                /\ memoryStore'[m.key] = m.value
                /\ m.id > 0 /\ loads[m.id].kind = "pending" =>
                      /\ loads'[m.id].kind = "resolved"
                      /\ loads'[m.id].value = m.value]_vars
    /\ [](\A b \in BatchIds : BatchOver(b) =>
            \A p \in Positions(b) : HasOutcome(b, p) =>
               LET l == WaiterAt(b, p)
                   r == batches[b].result[p]
               IN CASE r = ErrorValue ->
                         l.kind = "rejected" /\ l.err = RawError
                    [] r = Null ->
                         l.kind = "rejected" /\ l.err.cls = "NotFoundError"
                    [] OTHER ->
                         \/ l.kind = "resolved" /\ l.value = r
                         \/ l.kind = "rejected" /\ l.err.cls = "CacheError")

\* C39 witness: the cache was cleared while the first batch was in flight
\* and a second load was waiting in the queue behind a pending callback
\* (the second load was called after the first batch had been flushed, and
\* its miss was heard before the clearing); both are as they were.
C39_Witness ==
    /\ Len(batches) = 1
    /\ batches[1].st = "flight"
    /\ Len(loads) = 2
    /\ loads[2].epoch = 1
    /\ queue = <<2>>
    /\ scheduled
    /\ batchTimers = 1
    /\ heard # <<>>
    /\ heard[Len(heard)].ev = "deleteAlls"

\* ------------------------------------------------- load beside loadMany
\* The batch and the position load i waits at (<<0, 0>> when it was never
\* queued).
PlaceOf(i) ==
    IF i \in Captured
    THEN CHOOSE bp \in BatchIds \X (1..MaxLoads) :
            /\ bp[2] \in Positions(bp[1])
            /\ batches[bp[1]].items[bp[2]] = i
    ELSE <<0, 0>>

\* The cache write made for load i, or for the slot of loadMany, failed.
LoadWriteFailed(i) ==
    /\ loads[i].err.cls = "CacheError"
    /\ loads[i].err.msg = "Error setting value in cache during batch"

ManyWriteFailed ==
    /\ many.results[1].err.cls = "CacheError"
    /\ many.results[1].err.msg = "Error setting value in cache"

\* load i and the loadMany call of one query are over and met the same
\* case: the same query, the same result of the cache read (a value,
\* undefined, or a failure), no listener of cacheHit or cacheMiss that
\* threw, and, where load i went to batchFunction, the same behaviour of
\* batchFunction (an array with the same outcome at the position, a
\* non-array, or a rejection) and the same fate of the cache write.
SameCase(i) ==
    /\ many.st = "returned"
    /\ micro = <<>>
    /\ Len(many.queries) = 1
    /\ loads[i].query = many.queries[1]
    /\ loads[i].cached = many.reads[1]
    /\ loads[i].err # SubscriberFailure
    /\ loads[i].cached \in Values => loads[i].kind = "resolved"
    /\ many.reads[1] # SubscriberError => many.caught = {}
    /\ LET b == PlaceOf(i)[1]
           p == PlaceOf(i)[2]
       IN IF b = 0
          THEN loads[i].kind # "pending"
          ELSE /\ batches[b].st = "settled"
               /\ many.calls = 1
               /\ batches[b].kind = many.kind
               /\ batches[b].kind = "array" =>
                     /\ HasOutcome(b, p)
                     /\ Len(many.result) >= 1
                     /\ batches[b].result[p] = many.result[1]
               /\ LoadWriteFailed(i) <=> ManyWriteFailed

\* C40 (load and loadMany agree): whenever a load and a loadMany of the
\* same single query met the same case, the slot of loadMany holds the
\* value the load resolved with, or an error of the kind the load was
\* rejected with.
C40_LoadAndManyAgree ==
    \A i \in Ids : SameCase(i) =>
        \/ /\ loads[i].kind = "resolved"
           /\ many.results[1] = Slot(loads[i].value, NoError)
        \/ /\ loads[i].kind = "rejected"
           /\ many.results[1].err.cls = loads[i].err.cls

====
